---------------------------- MODULE Spec2Model ----------------------------
(***************************************************************************)
(* A model of the TRex complex event processing engine:                    *)
(*   - the engine dispatch (TRex::publish and the rest of the Engine API), *)
(*     with its worker pool, per-rule mutexes and results channel;         *)
(*   - the cached fetcher and the cache policies behind the static-query   *)
(*     node;                                                               *)
(*   - the event stacks of one rule (Stack, RuleStacks);                   *)
(*   - the static-query node of a rule (SqlFetcher, SQLiteDriver).         *)
(* Each part has its own specification (SpecEngine, SpecCache, SpecStack,  *)
(* SpecDriver, and SpecRegistry for TRex::declare); the variables of the   *)
(* other parts stay at their initial values.  SpecNodes has one node of a  *)
(* rule, a stack or a driver.  SpecGdsf is the GDSF cache with its remove, *)
(* SpecLookup the cached fetcher with contains and fetch as two steps,     *)
(* SpecTypes the type inference against the evaluation of operators, and   *)
(* SpecTasks the threads of a publish with the locks and the connection    *)
(* pool they wait for (SpecTasksFair with the threads scheduled fairly).   *)
(***************************************************************************)
EXTENDS Naturals, Integers, Sequences, FiniteSets, Bags, TLC

(***************************************************************************)
(* Bounds of the model.                                                    *)
(***************************************************************************)
MaxThreads == 2
MaxRules == 3
MaxTop == 2
MaxEvents == 4
MaxDepth == 3
MaxListeners == 1

MaxSubscriptions == 2

MaxCapacity == 2

MaxClients == 2

MaxFetches == 4

MaxTime == 2

MaxWindow == 2

MaxCalls == 3

MaxRow == 3

MaxDriverCalls == 2

MaxDeclares == 4

MaxPublishCalls == 2

MaxPoolSize == 2

(***************************************************************************)
(* Generic helpers.                                                        *)
(***************************************************************************)
Range(s) == {s[i] : i \in DOMAIN s}

IsPrefix(s, t) == Len(s) <= Len(t) /\ SubSeq(t, 1, Len(s)) = s

RECURSIVE Flatten(_)
Flatten(ss) == IF ss = <<>> THEN <<>> ELSE Head(ss) \o Flatten(Tail(ss))

Last(s) == s[Len(s)]

Front(s) == SubSeq(s, 1, Len(s) - 1)

(***************************************************************************)
(* EXPRESSIONS: the expressions of constraints and filters over the        *)
(* attribute val of a tuple, and their evaluation.                         *)
(***************************************************************************)
\* Expression
Immediate(value) == [node |-> "Immediate", value |-> value]

Reference == [node |-> "Reference"]

Parameter(predicate) == [node |-> "Parameter", predicate |-> predicate]

UnaryOperation(operator, expression) ==
    [node |-> "UnaryOperation", operator |-> operator, expression |-> expression]

BinaryOperation(operator, left, right) ==
    [node |-> "BinaryOperation", operator |-> operator, left |-> left, right |-> right]

\* The constraints of the predicates: val >= 1, val = parameter and
\* !(val < parameter)
ValAtLeastOne == BinaryOperation(">=", Reference, Immediate(1))

ValIsParameter == BinaryOperation("=", Reference, Parameter(0))

ValNotBelowParameter == UnaryOperation("!", BinaryOperation("<", Reference, Parameter(0)))

ConstraintLists ==
    {<<>>, <<ValAtLeastOne>>, <<ValIsParameter>>, <<ValNotBelowParameter, ValAtLeastOne>>}

ValBelowOne == BinaryOperation("<", Reference, Immediate(1))

\* Expression::is_local
RECURSIVE is_local_either_side(_)
is_local_either_side(expr) ==
    CASE expr.node = "Parameter" -> FALSE
      [] expr.node = "UnaryOperation" -> is_local_either_side(expr.expression)
      [] expr.node = "BinaryOperation" ->
            is_local_either_side(expr.left) \/ is_local_either_side(expr.right)
      [] OTHER -> TRUE

RECURSIVE is_local(_)
is_local(expr) ==
    CASE expr.node = "Parameter" -> FALSE
      [] expr.node = "UnaryOperation" -> is_local(expr.expression)
      [] expr.node = "BinaryOperation" -> is_local(expr.left) /\ is_local(expr.right)
      [] OTHER -> TRUE

\* Stack::new: the partition of the constraints
local_exprs(stack) == SelectSeq(stack.constraints, is_local)

global_exprs(stack) == SelectSeq(stack.constraints, LAMBDA expr : ~is_local(expr))

\* The evaluation contexts: SimpleContext has a tuple, CompleteContext a
\* partial result and, after set_tuple, a tuple
SimpleContext(event) == [complete |-> FALSE, tuple |-> event, result |-> <<>>]

CompleteContext(result, event) == [complete |-> TRUE, tuple |-> event, result |-> result]

\* A value, or the panic of an evaluation
Evaluated(value) == [panic |-> FALSE, value |-> value]

Panicked == [panic |-> TRUE, value |-> 0]

\* unary::apply and binary::apply
UnaryApply(operator, value) == ~value

BinaryApply(operator, left, right) ==
    CASE operator = ">=" -> left >= right
      [] operator = "<" -> left < right
      [] operator = "=" -> left = right

\* EvaluationContext::evaluate_expression.  The parameter 0 of the trigger
\* is the attribute val of its event.
RECURSIVE evaluate_expression(_, _)
evaluate_expression(context, expr) ==
    CASE expr.node = "Immediate" -> Evaluated(expr.value)
      [] expr.node = "Reference" -> Evaluated(context.tuple.val)
      [] expr.node = "Parameter" ->
            IF context.complete
            THEN Evaluated(context.result[expr.predicate + 1].ev.val)
            ELSE Panicked
      [] expr.node = "UnaryOperation" ->
            LET value == evaluate_expression(context, expr.expression)
            IN IF value.panic THEN Panicked
               ELSE Evaluated(UnaryApply(expr.operator, value.value))
      [] expr.node = "BinaryOperation" ->
            LET left == evaluate_expression(context, expr.left)
                right == evaluate_expression(context, expr.right)
            IN IF left.panic \/ right.panic THEN Panicked
               ELSE Evaluated(BinaryApply(expr.operator, left.value, right.value))

\* check_expr: evaluate_expression(expr).as_bool().unwrap()
check_expr(context, expr) ==
    LET value == evaluate_expression(context, expr)
    IN ~value.panic /\ value.value

(***************************************************************************)
(* ENGINE.  Tuple ids and the rules the model defines.                     *)
(* A rule is kept as its trigger's tuple id, the tuple id of its one event *)
(* predicate (0: the rule has only a trigger; rule 4 has its event         *)
(* predicate on the tuple of its trigger), the tuple id of its             *)
(* template, and whether its constraints read the event's attribute.       *)
(***************************************************************************)
TupleIds == 1..3

RuleCatalog ==
    << [trig |-> 1, pred |-> 0, out |-> 2, strict |-> TRUE],
       [trig |-> 1, pred |-> 0, out |-> 3, strict |-> FALSE],
       [trig |-> 3, pred |-> 2, out |-> 2, strict |-> FALSE],
       [trig |-> 2, pred |-> 2, out |-> 3, strict |-> FALSE] >>

\* SubscrFilter.  The content filters are on tuple 2 with val >= 1, and on
\* tuple 3 with val >= 1 and val < 1.
Filters ==
    {[kind |-> "Any", ty |-> 0, filters |-> <<>>]}
    \cup {[kind |-> "Topic", ty |-> t, filters |-> <<>>] : t \in TupleIds}
    \cup {[kind |-> "Content", ty |-> 2, filters |-> <<ValAtLeastOne>>],
          [kind |-> "Content", ty |-> 3, filters |-> <<ValAtLeastOne, ValBelowOne>>]}

\* Event.tuple: an event published from outside has val = 1, the template
\* of a rule gives its event val = 0
TupleOf(event) == [val |-> IF event.parent = 0 THEN 1 ELSE 0]

VARIABLES
    threads,        \* TRex.threadpool: the number of pool threads
    rules,          \* the RuleStacks the engine created, in define order
    reverse_index,  \* TRex.reverse_index: tuple id -> rule indices
    listeners,      \* TRex.listeners: subscription id -> filter
    last_id,        \* TRex.last_id
    events,         \* every Event created so far; an event's id is its index
    callStack,      \* the publish calls in progress on the engine thread
    jobQueue,       \* the pool's queue of submitted closures
    workers,        \* the pool threads
    mutex,          \* per rule: the mutex around its RuleStacks
    channel,        \* TRex.channel: batches sent and not yet received
    ruleState,      \* per rule: the buffer of its event stack
    publishLog,     \* history: events in the order publish was entered
    processLog,     \* history: per rule, events in the order process started
    received,       \* history: per subscription id, events received
    accepting,      \* history: per event, the subscriptions in place and
                    \*   accepting it when its publish was entered
    children,       \* history: per event, the events drained for it
    returned,       \* history: events whose publish has returned
    definedAt,      \* history: per rule, Len(publishLog) when it was defined
    panics          \* history: jobs whose closure panicked

engineVars == << threads, rules, reverse_index, listeners, last_id, events,
                 callStack, jobQueue, workers, mutex, channel, ruleState,
                 publishLog, processLog, received, accepting, children,
                 returned, definedAt, panics >>

VARIABLES
    policy,          \* which Cache implementation is behind the CachedFetcher
    capacity,        \* the cache_size it was built with
    overflow_checks, \* whether the build checks integer overflow
    storage,         \* the cache's entries (for the LRU policies, least
                     \*   recently used first)
    used,            \* the sum of the sizes of the stored entries
    clock,           \* GDSFCache.clock
    cacheMutex,      \* the mutex around the cache
    clients,         \* the threads inside CachedFetcher::fetch, each with the
                     \*   number of calls of the underlying fetcher it made
                     \*   in its current call
    observed,        \* history: the values the callers got
    fetches,         \* history: how many calls were made
    useLog           \* history: the keys of the hits and of the accepted
                     \*   stores, in the order they took the lock

cacheVars == << policy, capacity, overflow_checks, storage, used, clock,
                cacheMutex, clients, observed, fetches, useLog >>

VARIABLES
    stackRule,      \* the event predicates of the rule, one stack each
    stackBuffers,   \* per stack: Stack.events
    lastTime,       \* the time of the last event processed
    calls,          \* history: how many events were processed
    lastEvent,      \* history: the last event processed
    returnedBatch,  \* history: what the last process call returned
    evicted,        \* history: whether it removed old events
    consumed,       \* history: the consume call of the last operation, if
                    \*   it was one: the stack and the event instance
    evalLog         \* history: the Stack::evaluate calls of the last
                    \*   operation, each with the buffered events it used

stackVars == << stackRule, stackBuffers, lastTime, calls, lastEvent,
               returnedBatch, evicted, consumed, evalLog >>

VARIABLES
    table,           \* the rows of the static table, by their column col0
    driverPredicate, \* SQLiteDriver.predicate
    driverCache,     \* the entries the driver's cache holds, by key
    driverLog        \* history: the SQLiteDriver::evaluate calls

driverVars == << table, driverPredicate, driverCache, driverLog >>

VARIABLES
    tuples,         \* TRex.tuples: the declarations, by id
    declareCalls,   \* history: how many times declare was called
    declarePanic    \* history: whether the last declare panicked

registryVars == << tuples, declareCalls, declarePanic >>

VARIABLES
    unsubscribed    \* history: the ids unsubscribe was called with

VARIABLES
    typeCall        \* the last operation that was type checked and evaluated:
                    \*   the operator, the operands, the inferred type and
                    \*   the computed value

typeVars == << typeCall >>

VARIABLES
    publishing,     \* TRex::publish: where the engine thread is in the call,
                    \*   the event, the stacks still to submit, the batches
                    \*   still to take and the events still to publish
    taskQueue,      \* the jobs handed to the thread pool and not yet taken
    taskWorkers,    \* per pool thread: where it is in its task
    stackMutex,     \* per rule: the thread holding the Mutex<RuleStacks>, or 0
    cacheGuard,     \* the thread holding the lock of the shared cache, or 0
    cachedKeys,     \* the keys the shared cache holds
    pool_size,      \* SqliteConfig::pool_size
    connections,    \* the connections idle in the pool
    batchChannel,   \* the batches sent and not yet received
    publishCalls    \* the calls of publish made by the client so far

taskVars == << publishing, taskQueue, taskWorkers, stackMutex, cacheGuard, cachedKeys,
               pool_size, connections, batchChannel, publishCalls >>

vars == << engineVars, cacheVars, stackVars, driverVars, registryVars, unsubscribed,
           typeVars, taskVars >>

\* What an operation of one part of the program leaves alone
notSubscriptions == << cacheVars, stackVars, driverVars, registryVars, typeVars,
    taskVars >>

notTypes == << engineVars, cacheVars, stackVars, driverVars, registryVars, unsubscribed,
    taskVars >>

notTasks == << engineVars, cacheVars, stackVars, driverVars, registryVars, unsubscribed,
    typeVars >>

notEngine == << notSubscriptions, unsubscribed >>

notCache == << engineVars, stackVars, driverVars, registryVars, unsubscribed, typeVars,
    taskVars >>

notStack == << engineVars, cacheVars, driverVars, registryVars, unsubscribed, typeVars,
    taskVars >>

notDriver == << engineVars, cacheVars, stackVars, registryVars, unsubscribed, typeVars,
    taskVars >>

notRegistry == << engineVars, cacheVars, stackVars, driverVars, unsubscribed, typeVars,
    taskVars >>

(***************************************************************************)
(* define: the tuple ids of the rule's predicates, sorted and deduplicated *)
(***************************************************************************)
RECURSIVE SortInsert(_, _)
SortInsert(sorted, x) ==
    IF sorted = <<>> THEN <<x>>
    ELSE IF x <= Head(sorted) THEN <<x>> \o sorted
    ELSE <<Head(sorted)>> \o SortInsert(Tail(sorted), x)

RECURSIVE Sort(_)
Sort(seq) == IF seq = <<>> THEN <<>> ELSE SortInsert(Sort(Tail(seq)), Head(seq))

\* Vec::dedup: consecutive equal elements become one
RECURSIVE Dedup(_)
Dedup(seq) ==
    IF Len(seq) <= 1 THEN seq
    ELSE IF seq[1] = seq[2] THEN Dedup(Tail(seq))
    ELSE <<seq[1]>> \o Dedup(Tail(seq))

\* rule.predicates.iter().map(|pred| pred.tuple.ty_id).collect()
PredicateTyIds(rule) == <<rule.trig>> \o (IF rule.pred = 0 THEN <<>> ELSE <<rule.pred>>)

pred_ty_ids_not_deduped(rule) == Sort(PredicateTyIds(rule))

pred_ty_ids(rule) == Dedup(Sort(PredicateTyIds(rule)))

PredTyIds(rule) == Range(pred_ty_ids(rule))

Occurrences(seq, x) == Cardinality({k \in DOMAIN seq : seq[k] = x})

(***************************************************************************)
(* publish, the listeners loop: whether a subscription's filter lets the   *)
(* event through.                                                          *)
(***************************************************************************)
ShouldSendAnyTopic(condition, event) == TRUE

ShouldSendContentAsTopic(condition, event) ==
    CASE condition.kind = "Content" -> condition.ty = event.ty
      [] condition.kind = "Topic" -> condition.ty = event.ty
      [] condition.kind = "Any" -> TRUE

ShouldSend(condition, event) ==
    CASE condition.kind = "Content" ->
            /\ condition.ty = event.ty
            /\ \A k \in DOMAIN condition.filters :
                    check_expr(SimpleContext(TupleOf(event)), condition.filters[k])
      [] condition.kind = "Topic" -> condition.ty = event.ty
      [] condition.kind = "Any" -> TRUE

(***************************************************************************)
(* publish: the RuleStacks affected by an event.                           *)
(***************************************************************************)
StacksFor(event) == reverse_index[event.ty]

(***************************************************************************)
(* publish: how many batches it takes from the channel for `n` tasks.      *)
(***************************************************************************)
DrainNone(n) == 0

DrainAllButOne(n) == IF n > 0 THEN n - 1 ELSE 0

DrainTarget(n) == n

(***************************************************************************)
(* publish: threadpool.execute(closure) queues the closure; the pool hands *)
(* the oldest queued closure to a free thread.                             *)
(***************************************************************************)
SubmitJobInFront(queue, job) == <<job>> \o queue

SubmitJob(queue, job) == Append(queue, job)

NextJob(queue) == Head(queue)

(***************************************************************************)
(* Evaluating the constraints of a rule on an event whose attribute does   *)
(* not have the declared type fails in binary::apply.                      *)
(***************************************************************************)
EvaluationFails(rule, event) ==
    event.bad /\ rule.strict /\ event.ty \in PredTyIds(rule)

(***************************************************************************)
(* RuleStacks.process: the rule's event stack after it was offered the     *)
(* event, and the number of partial results that survive (Each selection   *)
(* over the buffered events, or the trigger alone).                        *)
(***************************************************************************)
OfferToStack(rule, buffer, id, event) ==
    IF rule.pred # 0 /\ event.ty = rule.pred THEN Append(buffer, id) ELSE buffer

Survivors(rule, buffer, event) ==
    IF event.ty # rule.trig THEN 0
    ELSE IF rule.pred = 0 THEN 1
    ELSE Len(buffer)

NewEvent(ty, parent, src) == [ty |-> ty, bad |-> FALSE, parent |-> parent, src |-> src]

Idle == callStack = <<>>

Top == callStack[Len(callStack)]

SetTop(frame) == [callStack EXCEPT ![Len(callStack)] = frame]

NewFrame(id) == [ev |-> id, phase |-> "notify", sub |-> 0, got |-> <<>>, pos |-> 0]

EngineInit ==
    /\ threads \in 1..MaxThreads
    /\ unsubscribed = {}
    /\ rules = <<>>
    /\ reverse_index = [t \in TupleIds |-> <<>>]
    /\ listeners = << >>
    /\ last_id = 0
    /\ events = <<>>
    /\ callStack = <<>>
    /\ jobQueue = <<>>
    /\ workers = [w \in 1..MaxThreads |-> [st |-> "idle", rule |-> 0, ev |-> 0, batch |-> <<>>]]
    /\ mutex = <<>>
    /\ channel = <<>>
    /\ ruleState = <<>>
    /\ publishLog = <<>>
    /\ processLog = <<>>
    /\ received = <<>>
    /\ accepting = <<>>
    /\ children = <<>>
    /\ returned = {}
    /\ definedAt = <<>>
    /\ panics = {}


(***************************************************************************)
(* define(rule): a new RuleStacks behind a new mutex, linked under every   *)
(* tuple id its predicates reference.  The model defines its rules before  *)
(* the first event is published, as the repository's drivers do, and each  *)
(* rule of the catalog at most once.                                       *)
(***************************************************************************)
Define(c) ==
    /\ Idle
    /\ publishLog = <<>>
    /\ RuleCatalog[c] \notin Range(rules)
    /\ Len(rules) < MaxRules
    /\ LET rule == RuleCatalog[c]
           stack == Len(rules) + 1
       IN /\ rules' = Append(rules, rule)
          /\ reverse_index' = [t \in TupleIds |->
                reverse_index[t] \o [k \in 1..Occurrences(pred_ty_ids(rule), t) |-> stack]]
    /\ mutex' = Append(mutex, [held |-> FALSE, poisoned |-> FALSE])
    /\ ruleState' = Append(ruleState, <<>>)
    /\ processLog' = Append(processLog, <<>>)
    /\ definedAt' = Append(definedAt, Len(publishLog))
    /\ UNCHANGED << threads, listeners, last_id, events, callStack, jobQueue,
                    workers, channel, publishLog, received, accepting,
                    children, returned, panics >>
    /\ UNCHANGED notEngine

(***************************************************************************)
(* subscribe(condition, listener) and unsubscribe(listener_id)             *)
(***************************************************************************)
SubscribeUpTo(bound, condition) ==
    /\ Idle
    /\ last_id < bound
    /\ last_id' = last_id + 1
    /\ listeners' = [i \in DOMAIN listeners \cup {last_id'} |->
            IF i = last_id' THEN condition ELSE listeners[i]]
    /\ received' = Append(received, <<>>)
    /\ UNCHANGED << threads, rules, reverse_index, events, callStack, jobQueue,
                    workers, mutex, channel, ruleState, publishLog, processLog,
                    accepting, children, returned, definedAt, panics >>
    /\ UNCHANGED notEngine

Subscribe(condition) == SubscribeUpTo(MaxListeners, condition)

\* BTreeMap::remove
RemoveNone(map, key) == map

Remove(map, key) == [i \in DOMAIN map \ {key} |-> map[i]]

Unsubscribe(listener_id) ==
    /\ Idle
    /\ listener_id \in DOMAIN listeners
    /\ listeners' = Remove(listeners, listener_id)
    /\ UNCHANGED << threads, rules, reverse_index, last_id, events, callStack,
                    jobQueue, workers, mutex, channel, ruleState, publishLog,
                    processLog, received, accepting, children, returned,
                    definedAt, panics >>
    /\ unsubscribed' = unsubscribed \cup {listener_id}
    /\ UNCHANGED notSubscriptions

(***************************************************************************)
(* publish(event), entered from outside the engine.                        *)
(***************************************************************************)
AcceptingNow(event) ==
    {l \in DOMAIN listeners :
        \/ listeners[l].kind = "Any"
        \/ /\ listeners[l].ty = event.ty
           /\ \A k \in DOMAIN listeners[l].filters :
                check_expr(SimpleContext(TupleOf(event)), listeners[l].filters[k])}

PublishTop(ty, bad) ==
    /\ Idle
    /\ Cardinality({i \in DOMAIN events : events[i].parent = 0}) < MaxTop
    /\ Len(events) < MaxEvents
    /\ LET event == [ty |-> ty, bad |-> bad, parent |-> 0, src |-> 0]
           id == Len(events) + 1
       IN /\ events' = Append(events, event)
          /\ callStack' = <<NewFrame(id)>>
          /\ publishLog' = Append(publishLog, id)
          /\ accepting' = Append(accepting, AcceptingNow(event))
          /\ children' = Append(children, <<>>)
    /\ UNCHANGED << threads, rules, reverse_index, listeners, last_id, jobQueue,
                    workers, mutex, channel, ruleState, processLog, received,
                    returned, definedAt, panics >>
    /\ UNCHANGED notEngine

(***************************************************************************)
(* publish, the listeners loop (lib.rs 134-151).                           *)
(***************************************************************************)
Notify ==
    /\ ~Idle
    /\ Top.phase = "notify"
    /\ received' = [l \in DOMAIN received |->
            IF l \in DOMAIN listeners /\ ShouldSend(listeners[l], events[Top.ev])
            THEN Append(received[l], Top.ev) ELSE received[l]]
    /\ callStack' = SetTop([Top EXCEPT !.phase = "dispatch"])
    /\ UNCHANGED << threads, rules, reverse_index, listeners, last_id, events,
                    jobQueue, workers, mutex, channel, ruleState, publishLog,
                    processLog, accepting, children, returned, definedAt, panics >>
    /\ UNCHANGED notEngine

(***************************************************************************)
(* publish, one round of the loop that submits a task per affected         *)
(* RuleStacks (lib.rs 157-165).                                            *)
(***************************************************************************)
Submit ==
    /\ ~Idle
    /\ Top.phase = "dispatch"
    /\ LET stacks == StacksFor(events[Top.ev])
       IN /\ Top.sub < Len(stacks)
          /\ jobQueue' = SubmitJob(jobQueue, [rule |-> stacks[Top.sub + 1], ev |-> Top.ev])
          /\ callStack' = SetTop([Top EXCEPT !.sub = Top.sub + 1])
    /\ UNCHANGED << threads, rules, reverse_index, listeners, last_id, events,
                    workers, mutex, channel, ruleState, publishLog, processLog,
                    received, accepting, children, returned, definedAt, panics >>
    /\ UNCHANGED notEngine

(***************************************************************************)
(* publish, rx.iter().take(stacks.len()): one batch received (lib.rs 166). *)
(***************************************************************************)
Submitted(frame) ==
    /\ frame.phase = "dispatch"
    /\ frame.sub = Len(StacksFor(events[frame.ev]))

Drained(frame) ==
    /\ Submitted(frame)
    /\ Len(frame.got) >= DrainTarget(Len(StacksFor(events[frame.ev])))

Drain ==
    /\ ~Idle
    /\ Submitted(Top)
    /\ ~Drained(Top)
    /\ channel # <<>>
    /\ callStack' = SetTop([Top EXCEPT !.got = Append(Top.got, Head(channel))])
    /\ channel' = Tail(channel)
    /\ children' = [children EXCEPT ![Top.ev] = children[Top.ev] \o Head(channel)]
    /\ UNCHANGED << threads, rules, reverse_index, listeners, last_id, events,
                    jobQueue, workers, mutex, ruleState, publishLog, processLog,
                    received, accepting, returned, definedAt, panics >>
    /\ UNCHANGED notEngine

(***************************************************************************)
(* publish, the loop over the produced events: the recursive call for the  *)
(* next one (lib.rs 169-172), and the return when none is left.            *)
(***************************************************************************)
Recurse ==
    /\ ~Idle
    /\ Drained(Top)
    /\ Top.pos < Len(Flatten(Top.got))
    /\ Len(callStack) < MaxDepth
    /\ LET id == Flatten(Top.got)[Top.pos + 1]
       IN /\ callStack' = Append(SetTop([Top EXCEPT !.pos = Top.pos + 1]), NewFrame(id))
          /\ publishLog' = Append(publishLog, id)
          /\ accepting' = [accepting EXCEPT ![id] = AcceptingNow(events[id])]
    /\ UNCHANGED << threads, rules, reverse_index, listeners, last_id, events,
                    jobQueue, workers, mutex, channel, ruleState, processLog,
                    received, children, returned, definedAt, panics >>
    /\ UNCHANGED notEngine

Return ==
    /\ ~Idle
    /\ Drained(Top)
    /\ Top.pos = Len(Flatten(Top.got))
    /\ callStack' = Front(callStack)
    /\ returned' = returned \cup {Top.ev}
    /\ UNCHANGED << threads, rules, reverse_index, listeners, last_id, events,
                    jobQueue, workers, mutex, channel, ruleState, publishLog,
                    processLog, received, accepting, children, definedAt, panics >>
    /\ UNCHANGED notEngine

(***************************************************************************)
(* A pool thread: it takes a closure, locks the rule's mutex, calls        *)
(* process, sends the batch and drops the guard (lib.rs 161-164).  A panic *)
(* ends the closure without a send; the pool replaces the thread.          *)
(***************************************************************************)
IdleWorker == [st |-> "idle", rule |-> 0, ev |-> 0, batch |-> <<>>]

WorkerTake(w) ==
    /\ w <= threads
    /\ workers[w].st = "idle"
    /\ jobQueue # <<>>
    /\ LET job == NextJob(jobQueue)
       IN workers' = [workers EXCEPT ![w] =
                [st |-> "job", rule |-> job.rule, ev |-> job.ev, batch |-> <<>>]]
    /\ jobQueue' = Tail(jobQueue)
    /\ UNCHANGED << threads, rules, reverse_index, listeners, last_id, events,
                    callStack, mutex, channel, ruleState, publishLog, processLog,
                    received, accepting, children, returned, definedAt, panics >>
    /\ UNCHANGED notEngine

WorkerLock(w) ==
    /\ workers[w].st = "job"
    /\ ~mutex[workers[w].rule].held
    /\ IF mutex[workers[w].rule].poisoned
       THEN /\ workers' = [workers EXCEPT ![w] = IdleWorker]
            /\ panics' = panics \cup {<<workers[w].rule, workers[w].ev>>}
            /\ UNCHANGED << mutex, processLog >>
       ELSE /\ mutex' = [mutex EXCEPT ![workers[w].rule].held = TRUE]
            /\ workers' = [workers EXCEPT ![w].st = "process"]
            /\ processLog' = [processLog EXCEPT ![workers[w].rule] = Append(@, workers[w].ev)]
            /\ UNCHANGED panics
    /\ UNCHANGED << threads, rules, reverse_index, listeners, last_id, events,
                    callStack, jobQueue, channel, ruleState, publishLog,
                    received, accepting, children, returned, definedAt >>
    /\ UNCHANGED notEngine

WorkerProcess(w) ==
    /\ workers[w].st = "process"
    /\ LET r == workers[w].rule
           id == workers[w].ev
           rule == rules[r]
           event == events[id]
           buffer == OfferToStack(rule, ruleState[r], id, event)
           n == Survivors(rule, buffer, event)
           batch == [i \in 1..n |-> Len(events) + i]
       IN IF EvaluationFails(rule, event)
          THEN /\ mutex' = [mutex EXCEPT ![r] = [held |-> FALSE, poisoned |-> TRUE]]
               /\ workers' = [workers EXCEPT ![w] = IdleWorker]
               /\ panics' = panics \cup {<<r, id>>}
               /\ UNCHANGED << events, ruleState, children, accepting >>
          ELSE /\ Len(events) + n <= MaxEvents
               /\ ruleState' = [ruleState EXCEPT ![r] = buffer]
               /\ events' = events \o [i \in 1..n |-> NewEvent(rule.out, id, r)]
               /\ children' = children \o [i \in 1..n |-> <<>>]
               /\ accepting' = accepting \o [i \in 1..n |-> {}]
               /\ workers' = [workers EXCEPT ![w].st = "send", ![w].batch = batch]
               /\ UNCHANGED << mutex, panics >>
    /\ UNCHANGED << threads, rules, reverse_index, listeners, last_id, callStack,
                    jobQueue, channel, publishLog, processLog, received,
                    returned, definedAt >>
    /\ UNCHANGED notEngine

WorkerSend(w) ==
    /\ workers[w].st = "send"
    /\ channel' = Append(channel, workers[w].batch)
    /\ mutex' = [mutex EXCEPT ![workers[w].rule].held = FALSE]
    /\ workers' = [workers EXCEPT ![w] = IdleWorker]
    /\ UNCHANGED << threads, rules, reverse_index, listeners, last_id, events,
                    callStack, jobQueue, ruleState, publishLog, processLog,
                    received, accepting, children, returned, definedAt, panics >>
    /\ UNCHANGED notEngine

EngineNext ==
    \/ \E c \in DOMAIN RuleCatalog : Define(c)
    \/ \E f \in Filters : Subscribe(f)
    \/ \E l \in 1..MaxListeners : Unsubscribe(l)
    \/ \E ty \in TupleIds, bad \in BOOLEAN : PublishTop(ty, bad)
    \/ Notify
    \/ Submit
    \/ Drain
    \/ Recurse
    \/ Return
    \/ \E w \in 1..MaxThreads : WorkerTake(w)
    \/ \E w \in 1..MaxThreads : WorkerLock(w)
    \/ \E w \in 1..MaxThreads : WorkerProcess(w)
    \/ \E w \in 1..MaxThreads : WorkerSend(w)

\* The engine after define of the rules 1 and 4 of the catalog, on one
\* thread, with more subscriptions
SubscriptionsInit ==
    /\ threads = 1
    /\ unsubscribed = {}
    /\ rules = <<RuleCatalog[1], RuleCatalog[4]>>
    /\ reverse_index = [t \in TupleIds |->
            SelectSeq(<<1, 2>>, LAMBDA r : t \in PredTyIds(<<RuleCatalog[1], RuleCatalog[4]>>[r]))]
    /\ listeners = << >>
    /\ last_id = 0
    /\ events = <<>>
    /\ callStack = <<>>
    /\ jobQueue = <<>>
    /\ workers = [w \in 1..MaxThreads |-> [st |-> "idle", rule |-> 0, ev |-> 0, batch |-> <<>>]]
    /\ mutex = [r \in 1..2 |-> [held |-> FALSE, poisoned |-> FALSE]]
    /\ channel = <<>>
    /\ ruleState = <<<<>>, <<>>>>
    /\ publishLog = <<>>
    /\ processLog = <<<<>>, <<>>>>
    /\ received = <<>>
    /\ accepting = <<>>
    /\ children = <<>>
    /\ returned = {}
    /\ definedAt = <<0, 0>>
    /\ panics = {}

SubscriptionsNext ==
    \/ \E f \in Filters : SubscribeUpTo(MaxSubscriptions, f)
    \/ \E l \in 1..MaxSubscriptions : Unsubscribe(l)
    \/ \E ty \in TupleIds, bad \in BOOLEAN : PublishTop(ty, bad)
    \/ Notify
    \/ Submit
    \/ Drain
    \/ Recurse
    \/ Return
    \/ \E w \in 1..MaxThreads : WorkerTake(w)
    \/ \E w \in 1..MaxThreads : WorkerLock(w)
    \/ \E w \in 1..MaxThreads : WorkerProcess(w)
    \/ \E w \in 1..MaxThreads : WorkerSend(w)



(***************************************************************************)
(* ENGINE: the claims.                                                     *)
(***************************************************************************)
Outstanding(id) ==
    Cardinality({i \in DOMAIN jobQueue : jobQueue[i].ev = id})
    + Cardinality({w \in DOMAIN workers : workers[w].st # "idle" /\ workers[w].ev = id})

RelevantPublished(r) ==
    SelectSeq(SubSeq(publishLog, definedAt[r] + 1, Len(publishLog)),
              LAMBDA id : events[id].ty \in PredTyIds(rules[r]))

\* C2: per rule, the events handed to process are, in order, the published
\* events whose tuple id the rule references (all of them once publish has
\* returned), and no two process calls on one RuleStacks overlap.
C2_PerRuleOrder ==
    \A r \in DOMAIN rules :
        /\ IsPrefix(processLog[r], RelevantPublished(r))
        /\ Idle => processLog[r] = RelevantPublished(r)
        /\ Cardinality({w \in DOMAIN workers :
                workers[w].st = "process" /\ workers[w].rule = r}) <= 1

C2_Witness ==
    /\ Idle
    /\ threads = 2
    /\ \E r \in DOMAIN rules :
        /\ Len(processLog[r]) >= 2
        /\ events[processLog[r][1]].parent # 0
        /\ events[processLog[r][2]].parent # 0

\* C3: while a generated event is being published, every task submitted for
\* the event that generated it has delivered its batch; the call stack is a
\* chain of the derivation tree; a generated event is published only after
\* the publish of each earlier generated event of the same parent has
\* returned, and a publish returns only after the publish of every event
\* generated for it has returned.
C3_DepthFirst ==
    /\ \A i \in 1..(Len(callStack) - 1) :
        /\ Submitted(callStack[i])
        /\ Outstanding(callStack[i].ev) = 0
        /\ Len(callStack[i].got) = Len(StacksFor(events[callStack[i].ev]))
        /\ events[callStack[i + 1].ev].parent = callStack[i].ev
    /\ \A p \in DOMAIN children : \A i, j \in DOMAIN children[p] :
        (i < j /\ children[p][j] \in Range(publishLog)) => children[p][i] \in returned
    /\ \A x \in returned : \A i \in DOMAIN events :
        events[i].parent = x => i \in returned

C3_Witness ==
    /\ Idle
    /\ \E e \in DOMAIN children :
        /\ Len(children[e]) >= 2
        /\ children[children[e][1]] # <<>>
        /\ Range(children[e]) \subseteq returned

\* C4: an event a rule has started to process has been received by every
\* listener subscribed with a filter that accepts it, and each listener has
\* received, in publish order, the accepted events published so far.
C4_ListenersFirst ==
    /\ \A r \in DOMAIN rules : \A i \in DOMAIN processLog[r] :
        \A l \in accepting[processLog[r][i]] :
            processLog[r][i] \in Range(received[l])
    /\ \A l \in DOMAIN received :
        LET expected == SelectSeq(publishLog, LAMBDA id : l \in accepting[id])
        IN /\ IsPrefix(received[l], expected)
           /\ (Idle \/ Top.phase # "notify") => received[l] = expected

C4_Witness ==
    \E l \in DOMAIN listeners, r \in DOMAIN rules :
        /\ listeners[l].kind = "Topic"
        /\ Len(received[l]) >= 2
        /\ events[received[l][2]].parent # 0
        /\ received[l][2] \in Range(processLog[r])
        /\ Len(publishLog) > Len(received[l])

\* C17: once unsubscribe(id) was called, the listener registered under id
\* receives no event of a later publish, from outside or from a rule, and
\* its id is not given to a later subscription; the call removes that
\* subscription alone and leaves every other one as it was.
C17_Unsubscribed ==
    [][/\ \A l \in unsubscribed :
            /\ received'[l] = received[l]
            /\ l \notin DOMAIN listeners'
       /\ \A l \in DOMAIN listeners' \ DOMAIN listeners : l > last_id
       /\ unsubscribed' # unsubscribed =>
            /\ DOMAIN listeners' = DOMAIN listeners \ unsubscribed'
            /\ \A l \in DOMAIN listeners' : listeners'[l] = listeners[l]
            /\ received' = received]_vars

C17_Witness ==
    /\ unsubscribed = {1}
    /\ 2 \in DOMAIN listeners
    /\ \E i, j \in DOMAIN publishLog :
            /\ i < j
            /\ events[publishLog[i]].ty = events[publishLog[j]].ty
            /\ events[publishLog[j]].parent # 0
            /\ publishLog[i] \in Range(received[1]) \cap Range(received[2])
            /\ publishLog[j] \in Range(received[2]) \ Range(received[1])

\* How many times an event is in what a listener received
Times_received(l, id) == Cardinality({k \in DOMAIN received[l] : received[l][k] = id})

\* C18: in the listeners loop of publish(e), a listener receives e iff its
\* filter accepts e - Any accepts all, Topic the events of its tuple id,
\* Content the events of its tuple id on whose tuple every filter
\* expression is true - and no listener has received an event twice.
C18_FilterAccepts ==
    /\ [](\A l \in DOMAIN received : \A id \in DOMAIN events : Times_received(l, id) <= 1)
    /\ [][(~Idle /\ Top.phase = "notify" /\ callStack' # callStack) =>
            \A l \in DOMAIN listeners :
                LET e == events[Top.ev]
                    f == listeners[l]
                    accepts ==
                        \/ f.kind = "Any"
                        \/ f.kind = "Topic" /\ f.ty = e.ty
                        \/ /\ f.kind = "Content" /\ f.ty = e.ty
                           /\ \A k \in DOMAIN f.filters :
                                LET value == evaluate_expression(SimpleContext(TupleOf(e)), f.filters[k])
                                IN ~value.panic /\ value.value = TRUE
                IN received'[l] = IF accepts THEN Append(received[l], Top.ev) ELSE received[l]]_vars

C18_Witness ==
    \E l \in DOMAIN listeners :
        /\ listeners[l].kind = "Content"
        /\ (Idle \/ Top.phase # "notify")
        /\ \E i, j \in DOMAIN publishLog :
            /\ events[publishLog[i]].ty = listeners[l].ty
            /\ events[publishLog[j]].ty = listeners[l].ty
            /\ publishLog[i] \in Range(received[l])
            /\ publishLog[j] \notin Range(received[l])
            /\ l \in accepting[publishLog[i]]

\* Whether a predicate of the rule is on the tuple
References(rule, t) == t = rule.trig \/ (rule.pred # 0 /\ t = rule.pred)

\* Whether a task for the rule and the event was submitted
HasTask(r, id) ==
    \/ \E i \in DOMAIN jobQueue : jobQueue[i].rule = r /\ jobQueue[i].ev = id
    \/ \E w \in DOMAIN workers :
            workers[w].st # "idle" /\ workers[w].rule = r /\ workers[w].ev = id
    \/ id \in Range(processLog[r])
    \/ <<r, id>> \in panics

\* C19: the RuleStacks of a defined rule is in reverse_index[t] once if a
\* predicate of the rule is on tuple t, also when several are, and not at
\* all otherwise; publish(e) submits one task for each rule that has a
\* predicate on the tuple of e, each once, and none for another rule.
C19_IndexedOnce ==
    \A r \in DOMAIN rules : \A t \in TupleIds :
        Occurrences(reverse_index[t], r) = IF References(rules[r], t) THEN 1 ELSE 0

C19_TaskPerRule ==
    /\ Len(jobQueue') > Len(jobQueue) =>
            \E r \in DOMAIN rules :
                /\ References(rules[r], events[Top.ev].ty)
                /\ ~HasTask(r, Top.ev)
                /\ HasTask(r, Top.ev)'
                /\ Len(jobQueue') = Len(jobQueue) + 1
    /\ (~Idle /\ Top.phase = "dispatch" /\ Len(callStack') # Len(callStack)) =>
            \A r \in DOMAIN rules :
                References(rules[r], events[Top.ev].ty) => HasTask(r, Top.ev)

C19_ReverseIndex == []C19_IndexedOnce /\ [][C19_TaskPerRule]_vars

C19_Witness ==
    \E r \in DOMAIN rules :
        /\ rules[r].trig = rules[r].pred
        /\ Occurrences(reverse_index[rules[r].trig], r) = 1
        /\ \E id \in Range(processLog[r]) : id \in returned

\* No task is queued or running, so none has a batch it has not sent
NoTaskPending == jobQueue = <<>> /\ \A w \in DOMAIN workers : workers[w].st = "idle"

\* C23: a publish call takes from the channel as many batches as it
\* submitted tasks, and each is the batch of a task of its own: when a
\* publish call is entered or returns, nested calls included, the channel
\* is empty and no task is pending, and the call that returns or recurses
\* has one batch per task it submitted.
C23_OnEntryAndReturn ==
    /\ Len(callStack') # Len(callStack) =>
            /\ channel = <<>> /\ channel' = <<>>
            /\ NoTaskPending /\ NoTaskPending'
            /\ ~Idle => /\ Len(Top.got) = Top.sub
                        /\ Top.sub = Len(StacksFor(events[Top.ev]))
    /\ Len(channel') < Len(channel) =>
            /\ Len(Top.got) < Top.sub
            /\ \A id \in Range(Head(channel)) : events[id].parent = Top.ev

C23_OwnBatches == [][C23_OnEntryAndReturn]_vars

C23_Witness ==
    /\ Len(callStack) >= 2
    /\ Len(callStack[1].got) >= 2
    /\ \E id \in returned : events[id].parent # 0
    /\ threads = 2

\* C5: after a failure inside process, the publish call that dispatched the
\* task can still receive every batch it waits for, and the rule can still
\* be locked for later events.
C5_FailureIsolated ==
    /\ \A r \in DOMAIN mutex : ~mutex[r].poisoned
    /\ (~Idle /\ Top.phase = "dispatch") =>
        LET n == Len(StacksFor(events[Top.ev]))
        IN n - Len(Top.got) <= (n - Top.sub) + Outstanding(Top.ev) + Len(channel)

\* C6: when an emitted event re-triggers, directly or transitively, the
\* rule that emitted it, the recursion of publish stops below the depth
\* the model explores.
RetriggerChain ==
    \E i, j \in DOMAIN callStack :
        /\ i < j
        /\ events[callStack[j].ev].src # 0
        /\ events[callStack[i].ev].ty = events[callStack[j].ev].ty

C6_DepthCapped == RetriggerChain => Len(callStack) < MaxDepth

(***************************************************************************)
(* The emissions of a run as a function of the rules and of the top-level  *)
(* stream alone: each event is offered to the affected rules in the order  *)
(* of the reverse index, and the produced events are then published in     *)
(* batch order, each with everything it produces before the next.          *)
(***************************************************************************)
RECURSIVE RefRules(_, _, _, _)
RefRules(bufs, stacks, event, out) ==
    IF stacks = <<>> THEN [bufs |-> bufs, out |-> out]
    ELSE LET r == Head(stacks)
             buffer == OfferToStack(rules[r], bufs[r], 0, event)
             n == Survivors(rules[r], buffer, event)
         IN RefRules([bufs EXCEPT ![r] = buffer], Tail(stacks), event,
                     out \o [i \in 1..n |-> NewEvent(rules[r].out, 0, r)])

RECURSIVE RefPublish(_, _, _)
RefPublish(bufs, todo, fuel) ==
    IF todo = <<>> \/ fuel = 0 THEN [bufs |-> bufs, out |-> <<>>]
    ELSE LET here == RefRules(bufs, StacksFor(Head(todo)), Head(todo), <<>>)
             below == RefPublish(here.bufs, here.out, fuel - 1)
             after == RefPublish(below.bufs, Tail(todo), fuel - 1)
         IN [bufs |-> after.bufs, out |-> here.out \o below.out \o after.out]

TopLevelStream ==
    LET ids == SelectSeq(publishLog, LAMBDA id : events[id].parent = 0)
    IN [i \in DOMAIN ids |-> events[ids[i]]]

RECURSIVE BagOfSeq(_)
BagOfSeq(s) ==
    IF s = <<>> THEN EmptyBag
    ELSE BagOfSeq(Tail(s)) (+) SetToBag({<<Head(s).ty, Head(s).src>>})

Emitted ==
    LET ids == SelectSeq(publishLog, LAMBDA id : events[id].parent # 0)
    IN BagOfSeq([i \in DOMAIN ids |-> events[ids[i]]])

C7_AnyPoolDeterminism ==
    Idle =>
        Emitted = BagOfSeq(RefPublish([r \in DOMAIN rules |-> <<>>],
                                      TopLevelStream, 2 * MaxEvents).out)

(***************************************************************************)
(* CACHE: CachedFetcher over the cache policies.                           *)
(*                                                                         *)
(* A key is a prepared statement with its parameters; the underlying       *)
(* fetcher returns the rows for the key and the time the query took.  The  *)
(* size of an entry is the number of values it holds, which is zero for a  *)
(* Count of no rows.                                                       *)
(***************************************************************************)
Keys == 1..4

SizeOf == <<1, 3, 0, 1>>

Costs == {1, 3}

Policies == {"Dummy", "HashMap", "Lru", "LruSize", "Collision", "Gdsf"}

\* Fetcher.fetch: the rows of the key.
FetchValue(key) == [data |-> key, size |-> SizeOf[key]]

\* StorageEntry::new over the CacheEntry the fetcher returned
NewEntry(key, cost) ==
    [key |-> key, value |-> FetchValue(key), cost |-> cost, frequency |-> 1, clock |-> 0]

Contains(key) == \E i \in DOMAIN storage : storage[i].key = key

StoredKeys == {storage[i].key : i \in DOMAIN storage}

IndexOf(key) == CHOOSE i \in DOMAIN storage : storage[i].key = key

Without(seq, key) == SelectSeq(seq, LAMBDA e : e.key # key)

RECURSIVE SumSizes(_)
SumSizes(seq) == IF seq = <<>> THEN 0 ELSE Head(seq).value.size + SumSizes(Tail(seq))

\* StorageEntry::priority
Priority(e) == e.clock + (e.frequency * e.cost) \div e.value.size

Unchanged(result) ==
    [storage |-> storage, used |-> used, clock |-> clock, result |-> result]

Ok(value) == [kind |-> "Ok", value |-> value]

Err(value) == [kind |-> "Err", value |-> value]

Panic == [kind |-> "Panic"]

\* DummyCache::store
StoreDummy(key, entry) == Unchanged(Err(entry.value))

\* HashMap::store, also the CollisionCache's
StoreHashMap(key, entry) ==
    [Unchanged(Ok(entry.value)) EXCEPT !.storage =
        IF Contains(key) THEN [storage EXCEPT ![IndexOf(key)] = entry]
        ELSE Append(storage, entry)]

\* LruCache::store: insert, then the value of the most recently used entry
StoreLru(key, entry) ==
    LET pushed == Append(Without(storage, key), entry)
        kept == IF Len(pushed) > capacity THEN Tail(pushed) ELSE pushed
    IN IF kept = <<>> THEN [Unchanged(Panic) EXCEPT !.storage = kept]
       ELSE [Unchanged(Ok(Last(kept).value)) EXCEPT !.storage = kept]

\* LruSizeCache::insert: an entry larger than the capacity is rejected;
\* otherwise least recently used entries leave until the sizes fit.
RECURSIVE EvictToFit(_)
EvictToFit(seq) ==
    IF SumSizes(seq) > capacity THEN EvictToFit(Tail(seq)) ELSE seq

LruSizeInsert(key, entry) ==
    IF entry.value.size > capacity THEN storage
    ELSE EvictToFit(Append(Without(storage, key), entry))

\* LruSizeCache::store: insert, then the value of the most recently used
\* entry, whatever insert did
StoreLruSize(key, entry) ==
    LET kept == LruSizeInsert(key, entry)
    IN IF kept = <<>> THEN [Unchanged(Panic) EXCEPT !.storage = kept]
       ELSE [Unchanged(Ok(Last(kept).value)) EXCEPT
                !.storage = kept, !.used = SumSizes(kept)]

\* GDSFCache::remove, what it leaves in used: the size of the entry of the
\* key, if there is one, is taken off
UsedAfterRemoveKept(key) == used

UsedAfterRemove(key) ==
    IF Contains(key) THEN used - storage[IndexOf(key)].value.size ELSE used

\* GDSFCache::insert, the clock after the scan of the queue when space is
\* missing: the priority of the head of the queue if a prefix was found,
\* the priority of the new entry if none was
GdsfClockKept(found, headPriority, priority) == IF found THEN headPriority ELSE clock

GdsfClock(found, headPriority, priority) == IF found THEN headPriority ELSE priority

\* GDSFCache::insert.  `used + size - capacity` is computed in usize: below
\* zero it panics in a build with overflow checks and wraps to a value no
\* sum of sizes reaches in a build without.  The eviction loop removes the
\* key being inserted, which the first line has already removed.
StoreGdsf(key, entry) ==
    LET rest == Without(storage, key)
        usedNow == UsedAfterRemove(key)
        size == entry.value.size
        e == [entry EXCEPT !.frequency = 1, !.clock = clock]
    IN IF size = 0 THEN [Unchanged(Panic) EXCEPT !.storage = rest, !.used = usedNow]
       ELSE IF usedNow + size < capacity /\ overflow_checks
       THEN [Unchanged(Panic) EXCEPT !.storage = rest, !.used = usedNow]
       ELSE LET priority == Priority(e)
                excess == usedNow + size - capacity
                wrapped == excess < 0
                taken == SelectSeq(rest, LAMBDA x : Priority(x) <= priority)
                found == ~wrapped /\ excess > 0 /\ SumSizes(taken) >= excess
                head == CHOOSE x \in Range(rest) :
                            \A y \in Range(rest) : Priority(x) <= Priority(y)
                clockNow == IF excess = 0 THEN clock
                            ELSE GdsfClock(found, Priority(head), priority)
            IN IF usedNow + size <= capacity
               THEN [storage |-> Append(rest, e), used |-> usedNow + size,
                     clock |-> clockNow, result |-> Ok(e.value)]
               ELSE [storage |-> rest, used |-> usedNow,
                     clock |-> clockNow, result |-> Err(e.value)]

\* Cache::store
Store(key, entry) ==
    CASE policy = "Dummy" -> StoreDummy(key, entry)
      [] policy \in {"HashMap", "Collision"} -> StoreHashMap(key, entry)
      [] policy = "Lru" -> StoreLru(key, entry)
      [] policy = "LruSize" -> StoreLruSize(key, entry)
      [] policy = "Gdsf" -> StoreGdsf(key, entry)

CacheFetchUnmoved(key) == storage

CacheFetchUncounted(key) ==
    LET i == IndexOf(key)
        e == storage[i]
    IN CASE policy \in {"Lru", "LruSize"} -> Append(Without(storage, key), e)
         [] policy = "Gdsf" -> [storage EXCEPT ![i] = [e EXCEPT !.clock = clock]]
         [] OTHER -> storage

\* Cache::fetch of a key the cache contains: the LRU policies move the
\* entry to the most recently used end, GDSF counts the use and stamps the
\* entry with the current clock.
CacheFetch(key) ==
    LET i == IndexOf(key)
        e == storage[i]
    IN CASE policy \in {"Lru", "LruSize"} -> Append(Without(storage, key), e)
         [] policy = "Gdsf" ->
              [storage EXCEPT ![i] = [e EXCEPT !.frequency = e.frequency + 1,
                                               !.clock = clock]]
         [] OTHER -> storage

EngineParked ==
    /\ threads = 1
    /\ unsubscribed = {}
    /\ rules = <<>>
    /\ reverse_index = [t \in TupleIds |-> <<>>]
    /\ listeners = << >>
    /\ last_id = 0
    /\ events = <<>>
    /\ callStack = <<>>
    /\ jobQueue = <<>>
    /\ workers = [w \in 1..MaxThreads |-> IdleWorker]
    /\ mutex = <<>>
    /\ channel = <<>>
    /\ ruleState = <<>>
    /\ publishLog = <<>>
    /\ processLog = <<>>
    /\ received = <<>>
    /\ accepting = <<>>
    /\ children = <<>>
    /\ returned = {}
    /\ definedAt = <<>>
    /\ panics = {}

IdleClient == [st |-> "idle", key |-> 0, entry |-> <<>>, value |-> <<>>, fetched |-> 0]

\* CachedFetcher::fetch after contains(key): who holds the cache lock.  On a
\* hit the guard goes into the returned value, on a miss it is dropped.
GuardAfterLookupKept(w, hit) == w

GuardAfterLookup(w, hit) == IF hit THEN w ELSE 0

CacheInit ==
    /\ policy \in Policies
    /\ capacity \in 1..MaxCapacity
    /\ overflow_checks \in BOOLEAN
    /\ storage = <<>>
    /\ used = 0
    /\ clock = 0
    /\ cacheMutex = [holder |-> 0, poisoned |-> FALSE]
    /\ clients = [w \in 1..MaxClients |-> IdleClient]
    /\ observed = {}
    /\ fetches = 0
    /\ useLog = <<>>

(***************************************************************************)
(* CachedFetcher::fetch, up to the first unlock: the lock is taken, and    *)
(* either the key is in the cache and the caller gets a reference into it, *)
(* still holding the lock, or the lock is dropped for the query.           *)
(***************************************************************************)
FetchLookup(w, key) ==
    /\ clients[w].st = "idle"
    /\ fetches < MaxFetches
    /\ cacheMutex.holder = 0
    /\ fetches' = fetches + 1
    /\ useLog' = IF ~cacheMutex.poisoned /\ Contains(key) THEN Append(useLog, key) ELSE useLog
    /\ IF cacheMutex.poisoned
       THEN UNCHANGED << storage, cacheMutex, clients, observed >>
       ELSE IF Contains(key)
       THEN LET after == CacheFetch(key)
                value == storage[IndexOf(key)].value
            IN /\ storage' = after
               /\ cacheMutex' = [cacheMutex EXCEPT !.holder = GuardAfterLookup(w, TRUE)]
               /\ clients' = [clients EXCEPT ![w] =
                        [st |-> "cached", key |-> key, entry |-> <<>>, value |-> value,
                         fetched |-> 0]]
               /\ observed' = observed \cup {[key |-> key, value |-> value, how |-> "hit"]}
       ELSE /\ cacheMutex' = [cacheMutex EXCEPT !.holder = GuardAfterLookup(w, FALSE)]
            /\ clients' = [clients EXCEPT ![w] = [IdleClient EXCEPT !.st = "miss", !.key = key]]
            /\ UNCHANGED << storage, observed >>
    /\ UNCHANGED << policy, capacity, overflow_checks, used, clock >>
    /\ UNCHANGED notCache

\* Fetcher::fetch, outside the lock: the rows, and the time the query took
UnderlyingFetch(w, cost) ==
    /\ clients[w].st = "miss"
    /\ clients' = [clients EXCEPT ![w].st = "fetched",
                                  ![w].entry = NewEntry(clients[w].key, cost),
                                  ![w].fetched = @ + 1]
    /\ UNCHANGED << policy, capacity, overflow_checks, storage, used, clock,
                    cacheMutex, observed, fetches, useLog >>
    /\ UNCHANGED notCache

\* CachedFetcher::fetch, the second lock and the store
FetchStore(w) ==
    /\ clients[w].st = "fetched"
    /\ cacheMutex.holder = 0
    /\ IF cacheMutex.poisoned
       THEN /\ clients' = [clients EXCEPT ![w] = IdleClient]
            /\ UNCHANGED << storage, used, clock, cacheMutex, observed >>
       ELSE LET key == clients[w].key
                done == Store(key, clients[w].entry)
            IN /\ storage' = done.storage
               /\ used' = done.used
               /\ clock' = done.clock
               /\ CASE done.result.kind = "Ok" ->
                        /\ cacheMutex' = [cacheMutex EXCEPT !.holder = w]
                        /\ clients' = [clients EXCEPT ![w].st = "cached",
                                                      ![w].value = done.result.value]
                        /\ observed' = observed \cup
                            {[key |-> key, value |-> done.result.value, how |-> "stored"]}
                    [] done.result.kind = "Err" ->
                        /\ clients' = [clients EXCEPT ![w] = IdleClient]
                        /\ observed' = observed \cup
                            {[key |-> key, value |-> done.result.value, how |-> "rejected"]}
                        /\ UNCHANGED cacheMutex
                    [] done.result.kind = "Panic" ->
                        /\ cacheMutex' = [cacheMutex EXCEPT !.poisoned = TRUE]
                        /\ clients' = [clients EXCEPT ![w] = IdleClient]
                        /\ UNCHANGED observed
    /\ useLog' = IF ~cacheMutex.poisoned
                     /\ Store(clients[w].key, clients[w].entry).result.kind = "Ok"
                  THEN Append(useLog, clients[w].key) ELSE useLog
    /\ UNCHANGED << policy, capacity, overflow_checks, fetches >>
    /\ UNCHANGED notCache

\* The caller is done with a cached value: the guard inside it is dropped
DropValue(w) ==
    /\ clients[w].st = "cached"
    /\ cacheMutex' = [cacheMutex EXCEPT !.holder = 0]
    /\ clients' = [clients EXCEPT ![w] = IdleClient]
    /\ UNCHANGED << policy, capacity, overflow_checks, storage, used, clock,
                    observed, fetches, useLog >>
    /\ UNCHANGED notCache

CacheParked ==
    /\ policy = "Dummy"
    /\ capacity = 1
    /\ overflow_checks = FALSE
    /\ storage = <<>>
    /\ used = 0
    /\ clock = 0
    /\ cacheMutex = [holder |-> 0, poisoned |-> FALSE]
    /\ clients = [w \in 1..MaxClients |-> IdleClient]
    /\ observed = {}
    /\ fetches = 0
    /\ useLog = <<>>

CacheNext ==
    \/ \E w \in 1..MaxClients, key \in Keys : FetchLookup(w, key)
    \/ \E w \in 1..MaxClients, cost \in Costs : UnderlyingFetch(w, cost)
    \/ \E w \in 1..MaxClients : FetchStore(w)
    \/ \E w \in 1..MaxClients : DropValue(w)

(***************************************************************************)
(* CachedFetcher::fetch with the two calls of the hit path apart:          *)
(* cache.contains(key), then cache.fetch(key).unwrap() inside the map over *)
(* the same guard.                                                         *)
(***************************************************************************)
\* The holder of the cache lock between contains and fetch
GuardAfterContainsDropped(w) == 0

GuardAfterContains(w) == w

LookupContains(w, key) ==
    /\ clients[w].st = "idle"
    /\ fetches < MaxFetches
    /\ cacheMutex.holder = 0
    /\ fetches' = fetches + 1
    /\ IF cacheMutex.poisoned
       THEN UNCHANGED << cacheMutex, clients >>
       ELSE IF Contains(key)
       THEN /\ cacheMutex' = [cacheMutex EXCEPT !.holder = GuardAfterContains(w)]
            /\ clients' = [clients EXCEPT ![w] = [IdleClient EXCEPT !.st = "found", !.key = key]]
       ELSE /\ cacheMutex' = [cacheMutex EXCEPT !.holder = GuardAfterLookup(w, FALSE)]
            /\ clients' = [clients EXCEPT ![w] = [IdleClient EXCEPT !.st = "miss", !.key = key]]
    /\ UNCHANGED << policy, capacity, overflow_checks, storage, used, clock,
                    observed, useLog >>
    /\ UNCHANGED notCache

\* cache.fetch(key).unwrap(): None panics with the guard alive, which
\* poisons the mutex
LookupFetch(w) ==
    /\ clients[w].st = "found"
    /\ LET key == clients[w].key
       IN IF Contains(key)
          THEN LET value == storage[IndexOf(key)].value
               IN /\ storage' = CacheFetch(key)
                  /\ cacheMutex' = [cacheMutex EXCEPT !.holder = w]
                  /\ clients' = [clients EXCEPT ![w].st = "cached", ![w].value = value]
                  /\ observed' = observed \cup {[key |-> key, value |-> value, how |-> "hit"]}
                  /\ useLog' = Append(useLog, key)
          ELSE /\ cacheMutex' = [poisoned |-> TRUE, holder |-> 0]
               /\ clients' = [clients EXCEPT ![w] = IdleClient]
               /\ UNCHANGED << storage, observed, useLog >>
    /\ UNCHANGED << policy, capacity, overflow_checks, used, clock, fetches >>
    /\ UNCHANGED notCache

LookupNext ==
    \/ \E w \in 1..MaxClients, key \in Keys : LookupContains(w, key)
    \/ \E w \in 1..MaxClients : LookupFetch(w)
    \/ \E w \in 1..MaxClients, cost \in Costs : UnderlyingFetch(w, cost)
    \/ \E w \in 1..MaxClients : FetchStore(w)
    \/ \E w \in 1..MaxClients : DropValue(w)

\* C40: on the hit path the entry found by contains(key) is still there
\* when fetch(key) is called, whatever the other workers do in between,
\* since the lock is held across both calls; for every policy the fetch of
\* a contained key gives a value, so the unwrap does not fail.
C40_HitStillThere ==
    \A w \in DOMAIN clients :
        clients[w].st = "found" =>
            /\ cacheMutex.holder = w
            /\ Contains(clients[w].key)
            /\ \E e \in Range(CacheFetch(clients[w].key)) : e.key = clients[w].key

C40_Witness ==
    \E w, v \in DOMAIN clients :
        /\ clients[w].st = "found"
        /\ clients[v].st = "fetched" /\ clients[v].key # clients[w].key
        /\ policy = "Lru" /\ Len(storage) = capacity

\* The GDSF cache behind the CachedFetcher
GdsfInit == CacheInit /\ policy = "Gdsf"

\* Cache::remove(key) on the GDSF cache, by a holder of the lock
GdsfRemove(key) ==
    /\ policy = "Gdsf"
    /\ cacheMutex.holder = 0 /\ ~cacheMutex.poisoned
    /\ Contains(key)
    /\ storage' = Without(storage, key)
    /\ used' = UsedAfterRemove(key)
    /\ UNCHANGED << policy, capacity, overflow_checks, clock, cacheMutex, clients,
                    observed, fetches, useLog >>
    /\ UNCHANGED notCache

GdsfNext == CacheNext \/ \E key \in Keys : GdsfRemove(key)

\* C34: after any insert, hit and remove on the GDSF cache, used is the sum
\* of the sizes of the stored entries, and it is at most the capacity.
C34_UsedIsSum ==
    policy = "Gdsf" => used = SumSizes(storage) /\ used <= capacity

C34_Witness ==
    /\ policy = "Gdsf"
    /\ Len(storage) = 1 /\ used = 1 /\ capacity = 2
    /\ \E i \in DOMAIN storage : storage[i].frequency >= 2
    /\ \E k \in Range(useLog) : k \notin StoredKeys /\ SizeOf[k] = 1

\* C35: the clock of the GDSF cache never decreases, whatever insert
\* (accepted, evicting or rejected), hit or remove is made.
C35_ClockStep == policy = "Gdsf" => clock' >= clock

C35_ClockMonotone == [][C35_ClockStep]_vars

\* C1: every value a caller of CachedFetcher.fetch(key) observes, from a
\* hit, from an accepted store or from a rejected store, is the value the
\* underlying fetcher returns for that key.
C1_CacheTransparency ==
    \A o \in observed : o.value = FetchValue(o.key)

\* C21: a thread inside CachedFetcher.fetch does not hold the cache lock
\* from the miss until its store, so the underlying fetcher runs outside
\* the lock and another thread can lock the cache and hit meanwhile; a hit
\* makes no call of the underlying fetcher and a miss makes exactly one.
C21_Unlocked ==
    \A w \in DOMAIN clients :
        /\ clients[w].st \in {"miss", "fetched"} => cacheMutex.holder # w
        /\ clients[w].st = "miss" => clients[w].fetched = 0
        /\ clients[w].st = "fetched" => clients[w].fetched = 1

C21_Calls ==
    \A w \in DOMAIN clients :
        /\ (clients[w].st = "idle" /\ clients'[w].st = "cached") =>
                clients'[w].fetched = 0 /\ cacheMutex'.holder = w
        /\ (clients[w].st = "miss" /\ clients'[w].st # "miss") =>
                /\ clients'[w].st = "fetched"
                /\ cacheMutex.holder # w /\ cacheMutex'.holder # w
        /\ (clients[w].st = "fetched" /\ clients'[w].st = "cached") =>
                clients'[w].fetched = 1
        /\ (clients[w].st = "cached" /\ clients'[w].st = "cached") =>
                clients'[w].fetched = clients[w].fetched

C21_LockReleased == []C21_Unlocked /\ [][C21_Calls]_vars

C21_Witness ==
    \E w, v \in DOMAIN clients :
        /\ clients[w].st = "fetched"
        /\ clients[v].st = "cached" /\ clients[v].fetched = 0
        /\ cacheMutex.holder = v

\* C22: when a thread stores the result of its query for a key that another
\* thread has stored since its miss, the entry the first thread stored stays
\* in the cache as it is: the second result does not replace it.
C22_StoreKeepsFirst ==
    \A w \in DOMAIN clients :
        (/\ clients[w].st = "fetched" /\ clients'[w].st # "fetched"
         /\ ~cacheMutex.poisoned
         /\ Contains(clients[w].key)) =>
            \E i \in DOMAIN storage' : storage'[i] = storage[IndexOf(clients[w].key)]

C22_FirstStoreTakes == [][C22_StoreKeepsFirst]_vars

RECURSIVE SizesOf(_)
SizesOf(S) ==
    IF S = {} THEN 0
    ELSE LET x == CHOOSE y \in S : TRUE IN x.value.size + SizesOf(S \ {x})

\* The entry GDSFCache::insert makes for the result of client w, the stored
\* entries of other keys, and the space that is missing for it
GdsfEntry(w) == [clients[w].entry EXCEPT !.frequency = 1, !.clock = clock]

GdsfOthers(w) == Range(Without(storage, clients[w].key))

GdsfExcess(w) == SizesOf(GdsfOthers(w)) + clients[w].entry.value.size - capacity

\* The shortest prefixes of the queue, in ascending priority, whose sizes
\* sum to at least the excess (entries of equal priority in either order)
GdsfPrefixes(w) ==
    {E \in SUBSET GdsfOthers(w) :
        /\ \A x \in E : \A y \in GdsfOthers(w) \ E : Priority(x) <= Priority(y)
        /\ SizesOf(E) >= GdsfExcess(w)
        /\ \E x \in E : /\ \A y \in E : Priority(y) <= Priority(x)
                         /\ SizesOf(E \ {x}) < GdsfExcess(w)}

\* Client w is at GDSFCache::insert with a result that does not fit
GdsfInsertFull(w) ==
    /\ policy = "Gdsf" /\ ~cacheMutex.poisoned
    /\ clients[w].st = "fetched" /\ clients'[w].st # "fetched"
    /\ clients[w].entry.value.size > 0
    /\ GdsfExcess(w) > 0

\* C24: a GDSF insert without enough free space, when the shortest prefix
\* of the queue in ascending priority whose sizes reach the excess has
\* only entries of priority <= the new entry's: exactly the entries of the
\* prefix are evicted, the new entry is stored and handed out as cached,
\* and clock becomes the highest evicted priority.
C24_Evicts ==
    \A w \in DOMAIN clients :
        (/\ GdsfInsertFull(w)
         /\ \E E \in GdsfPrefixes(w) : \A x \in E : Priority(x) <= Priority(GdsfEntry(w))) =>
            \E E \in GdsfPrefixes(w) :
                /\ Range(storage') = (GdsfOthers(w) \ E) \cup {GdsfEntry(w)}
                /\ clients'[w].st = "cached"
                /\ clients'[w].value = clients[w].entry.value
                /\ \E x \in E : /\ clock' = Priority(x)
                                 /\ \A y \in E : Priority(y) <= Priority(x)

C24_EvictPrefix == [][C24_Evicts]_vars

\* C25: a GDSF insert without enough free space, when the entries of
\* priority <= the new entry's do not free the excess: the insert is
\* rejected, the value goes back to the caller, no stored entry is
\* evicted, and clock becomes the new entry's priority.
C25_Rejects ==
    \A w \in DOMAIN clients :
        (/\ GdsfInsertFull(w)
         /\ SizesOf({x \in GdsfOthers(w) : Priority(x) <= Priority(GdsfEntry(w))})
                < GdsfExcess(w)) =>
            /\ storage' = storage
            /\ used' = used
            /\ clients'[w].st = "idle"
            /\ cacheMutex' = cacheMutex
            /\ [key |-> clients[w].key, value |-> clients[w].entry.value,
                 how |-> "rejected"] \in observed'
            /\ clock' = Priority(GdsfEntry(w))

GdsfInsertFits(w) ==
    /\ policy = "Gdsf" /\ ~cacheMutex.poisoned
    /\ clients[w].st = "fetched" /\ clients'[w].st # "fetched"
    /\ ~Contains(clients[w].key)
    /\ clients[w].entry.value.size > 0
    /\ used + clients[w].entry.value.size <= capacity

\* C36: a GDSF insert of an entry that fits in the free space (key not
\* stored, used + size <= capacity) is accepted, evicts nothing and leaves
\* the clock unchanged; used + size - capacity neither fails nor wraps.
C36_Fits ==
    \A w \in DOMAIN clients :
        GdsfInsertFits(w) =>
            /\ storage' = Append(storage, GdsfEntry(w))
            /\ used' = used + clients[w].entry.value.size
            /\ clock' = clock
            /\ ~cacheMutex'.poisoned
            /\ clients'[w].st = "cached"

C36_FitsLeavesClock == [][C36_Fits]_vars

\* C37: a GDSF store of an entry of size 0 (no rows, or Count(0)) does not
\* fail: the entry gets a priority and is stored or rejected like any other.
C37_SizeZero ==
    \A w \in DOMAIN clients :
        (/\ policy = "Gdsf" /\ ~cacheMutex.poisoned
         /\ clients[w].st = "fetched" /\ clients'[w].st # "fetched"
         /\ clients[w].entry.value.size = 0) =>
            /\ ~cacheMutex'.poisoned
            /\ \E o \in observed' :
                    /\ o.key = clients[w].key
                    /\ o.value = clients[w].entry.value
                    /\ o.how \in {"stored", "rejected"}

C37_SizeZeroStored == [][C37_SizeZero]_vars

\* The entries a query for a key can give back, the tables being what they
\* are at the time of the query: any number of rows
RowCounts == {SizeOf[k] : k \in Keys} \ {0}

EntriesOf(key) ==
    {[key |-> key, value |-> [data |-> key, size |-> n], cost |-> c,
      frequency |-> 1, clock |-> 0] : n \in RowCounts, c \in Costs}

\* C38: a rejected GDSF store leaves the contents unchanged: every key
\* stored before, the key being stored included, is still stored with its
\* previous value, and used is unchanged.
C38_RejectedKeeps ==
    (policy = "Gdsf" /\ ~cacheMutex.poisoned) =>
        \A key \in Keys : \A entry \in EntriesOf(key) :
            LET done == StoreGdsf(key, entry)
            IN done.result.kind = "Err" =>
                /\ done.used = used
                /\ \A i \in DOMAIN storage : \E j \in DOMAIN done.storage :
                        /\ done.storage[j].key = storage[i].key
                        /\ done.storage[j].value = storage[i].value

\* C26: a hit on key k of the GDSF cache adds one to the frequency of the
\* entry, sets the entry's clock to the cache's clock, and so gives it the
\* priority clock + frequency * cost / size; the value, used, the cache's
\* clock and every other entry stay as they were.
C26_Hit ==
    \A w \in DOMAIN clients :
        (policy = "Gdsf" /\ clients[w].st = "idle" /\ clients'[w].st = "cached") =>
            LET i == IndexOf(clients'[w].key)
                e == storage[i]
            IN /\ DOMAIN storage' = DOMAIN storage
               /\ \A j \in DOMAIN storage : j # i => storage'[j] = storage[j]
               /\ storage'[i].key = e.key /\ storage'[i].value = e.value
               /\ storage'[i].cost = e.cost
               /\ storage'[i].frequency = e.frequency + 1
               /\ storage'[i].clock = clock
               /\ Priority(storage'[i]) =
                    clock + ((e.frequency + 1) * e.cost) \div e.value.size
               /\ clients'[w].value = e.value
               /\ used' = used /\ clock' = clock

C26_HitUpdates == [][C26_Hit]_vars

C26_Witness ==
    /\ policy = "Gdsf"
    /\ Len(storage) = 2
    /\ \E i \in DOMAIN storage : storage[i].frequency = 2 /\ storage[i].clock > 0
    /\ \E w \in DOMAIN clients : clients[w].st = "cached" /\ clients[w].fetched = 0

\* The n most recently used keys of a log of uses
RECURSIVE RecentKeys(_, _)
RecentKeys(log, n) ==
    IF log = <<>> \/ n = 0 THEN {}
    ELSE {Last(log)} \cup
         RecentKeys(SelectSeq(Front(log), LAMBDA k : k # Last(log)), n - 1)

\* C27: the LRU-by-count cache holds at most capacity entries, those of the
\* most recently used (stored or fetched) keys, so a store into a full
\* cache evicts the least recently used key; with capacity 1 the lookups
\* K1, K2, K1 are three misses.
C27_LruByCount ==
    policy = "Lru" =>
        /\ Len(storage) <= capacity
        /\ StoredKeys = RecentKeys(useLog, capacity)
        /\ capacity = 1 =>
                \A o \in observed : o.how = "hit" =>
                    \E i \in DOMAIN useLog :
                        i > 1 /\ useLog[i] = o.key /\ useLog[i - 1] = o.key

C27_Witness ==
    /\ policy = "Lru" /\ capacity = 1
    /\ useLog = <<1, 2, 1>>
    /\ fetches = 3
    /\ \A o \in observed : o.how = "stored"
    /\ StoredKeys = {1}

\* C28: a store into the LRU-by-size cache of an entry larger than the
\* capacity is rejected: the caller gets its value back, uncached and not a
\* reference to another cached entry, and the cache is as it was.
C28_Rejected ==
    \A w \in DOMAIN clients :
        (/\ policy = "LruSize" /\ ~cacheMutex.poisoned
         /\ clients[w].st = "fetched" /\ clients'[w].st # "fetched"
         /\ clients[w].entry.value.size > capacity) =>
            /\ storage' = storage /\ used' = used
            /\ clients'[w].st = "idle"
            /\ cacheMutex' = cacheMutex
            /\ [key |-> clients[w].key, value |-> clients[w].entry.value,
                 how |-> "rejected"] \in observed'

C28_OversizeRejected == [][C28_Rejected]_vars

\* C29: the Collision cache never holds more entries than the capacity it
\* was built with: a store into a full table displaces an entry.
C29_CollisionBounded ==
    policy = "Collision" => Len(storage) <= capacity

(***************************************************************************)
(* STACKS: Stack and RuleStacks, the event stackBuffers of one rule.             *)
(*                                                                         *)
(* Predicate 0 of the rule is its trigger, on tuple 1 with the constraint  *)
(* val >= 1 and the parameter 0 = val; predicates 1.. are event            *)
(* predicates, each with a stack.  A constraint is an expression over the  *)
(* attribute val of the event and the parameter of the trigger.            *)
(***************************************************************************)
Times == 0..MaxTime

Vals == 0..1

Selections == {"Each", "First", "Last"}

Aggregators == {"Avg", "Sum", "Min", "Max", "Count"}

Kinds == Selections \cup Aggregators \cup {"Negation"}

Within(window) == [kind |-> "Within", window |-> window, lower |-> 0]

Between(lower) == [kind |-> "Between", window |-> 0, lower |-> lower]

FirstPredicates ==
    {[ty |-> 2, kind |-> k, upper |-> 0, bound |-> Within(w), constraints |-> c] :
        k \in Kinds, w \in 1..MaxWindow, c \in ConstraintLists}

SecondPredicates ==
    {[ty |-> 3, kind |-> "Each", upper |-> 0, bound |-> Between(1), constraints |-> <<>>],
     [ty |-> 3, kind |-> "Each", upper |-> 1, bound |-> Within(1), constraints |-> <<>>]}

RuleShapes ==
    {<<p>> : p \in FirstPredicates}
    \cup {<<p, q>> : p \in {x \in FirstPredicates : x.kind \in Selections /\ x.constraints = <<>>},
                     q \in SecondPredicates}

\* Trigger::is_satisfied
IsSatisfiedAnyTuple(event) == event.val >= 1

IsSatisfied(event) == event.ty = 1 /\ event.val >= 1

\* Stack::is_locally_satisfied
IsLocallySatisfied(stack, event) ==
    /\ event.ty = stack.ty
    /\ \A k \in DOMAIN local_exprs(stack) :
            check_expr(SimpleContext(event), local_exprs(stack)[k])

\* Stack::is_globally_satisfied, in the context of a partial result with the
\* candidate event as current tuple
IsGloballySatisfied(stack, result, event) ==
    \A k \in DOMAIN global_exprs(stack) :
        check_expr(CompleteContext(result, event), global_exprs(stack)[k])

\* Stack::process
StackProcess(stack, buffer, event) ==
    IF IsLocallySatisfied(stack, event) THEN Append(buffer, event) ELSE buffer

\* RuleStacks::new, the max_window it gives a stack: the window of a Within
\* bound; for a Between bound the max_window of the stack of the lower
\* predicate, read while every stack still has the zero of Stack::new
StackNewMaxWindow == 0

max_window(stack) ==
    IF stack.bound.kind = "Within" THEN stack.bound.window ELSE StackNewMaxWindow

\* Stack::remove_old_events: the buffer it keeps
RetainFrom(buffer, time) == SelectSeq(buffer, LAMBDA evt : evt.time >= time)

\* PartialResult
with_trigger(event) == <<[kind |-> "event", ev |-> event, value |-> 0]>>

push_event(result, event) == Append(result, [kind |-> "event", ev |-> event, value |-> 0])

push_aggregate(result, value) ==
    Append(result, [kind |-> "aggregate", ev |-> <<>>, value |-> value])

get_time(result, index) == result[index + 1].ev.time

\* Stack::evaluate: the window of the stack in a partial result
UpperOf(stack, result) == get_time(result, stack.upper)

LowerOf(stack, result) ==
    IF stack.bound.kind = "Within" THEN UpperOf(stack, result) - stack.bound.window
    ELSE get_time(result, stack.bound.lower)

\* Stack::evaluate, check_evt
CheckEvtUpperClosed(stack, result, evt) ==
    /\ evt.time <= UpperOf(stack, result)
    /\ evt.time >= LowerOf(stack, result)
    /\ IsGloballySatisfied(stack, result, evt)

CheckEvtLowerOpen(stack, result, evt) ==
    /\ evt.time < UpperOf(stack, result)
    /\ evt.time > LowerOf(stack, result)
    /\ IsGloballySatisfied(stack, result, evt)

CheckEvt(stack, result, evt) ==
    /\ evt.time < UpperOf(stack, result)
    /\ evt.time >= LowerOf(stack, result)
    /\ IsGloballySatisfied(stack, result, evt)

\* compute_aggregate over the attribute val (an Int) of the events of the
\* iterator: Some(value) or None.  The average is the quotient of the sum
\* and the count, kept as the pair of the two.
None == [none |-> TRUE]

Some(value) == [some |-> value]

RECURSIVE SumOf(_)
SumOf(values) == IF values = <<>> THEN 0 ELSE Head(values) + SumOf(Tail(values))

compute_aggregate_min_of_none(aggregator, values) ==
    CASE aggregator = "Avg" ->
            IF Len(values) > 0 THEN Some(<<SumOf(values), Len(values)>>) ELSE None
      [] aggregator = "Sum" -> Some(SumOf(values))
      [] aggregator = "Min" ->
            IF values = <<>> THEN Some(0)
            ELSE Some(CHOOSE v \in Range(values) : \A w \in Range(values) : v <= w)
      [] aggregator = "Max" ->
            IF values = <<>> THEN None
            ELSE Some(CHOOSE v \in Range(values) : \A w \in Range(values) : v >= w)
      [] aggregator = "Count" -> Some(Len(values))

compute_aggregate(aggregator, values) ==
    CASE aggregator = "Avg" ->
            IF Len(values) > 0 THEN Some(<<SumOf(values), Len(values)>>) ELSE None
      [] aggregator = "Sum" -> Some(SumOf(values))
      [] aggregator = "Min" ->
            IF values = <<>> THEN None
            ELSE Some(CHOOSE v \in Range(values) : \A w \in Range(values) : v <= w)
      [] aggregator = "Max" ->
            IF values = <<>> THEN None
            ELSE Some(CHOOSE v \in Range(values) : \A w \in Range(values) : v >= w)
      [] aggregator = "Count" -> Some(Len(values))

\* Stack::evaluate with First finding from the back of the buffer
EvaluateFirstFromBack(stack, buffer, result) ==
    LET filtered == SelectSeq(buffer, LAMBDA evt : CheckEvt(stack, result, evt))
    IN CASE stack.kind = "Each" ->
              [out |-> [k \in DOMAIN filtered |-> push_event(result, filtered[k])],
               used |-> Range(filtered)]
         [] stack.kind \in {"First", "Last"} ->
              IF filtered = <<>> THEN [out |-> <<>>, used |-> {}]
              ELSE [out |-> <<push_event(result, Last(filtered))>>, used |-> {Last(filtered)}]
         [] stack.kind \in Aggregators ->
              LET value == compute_aggregate(stack.kind, [k \in DOMAIN filtered |-> filtered[k].val])
              IN [out |-> IF value = None THEN <<>> ELSE <<push_aggregate(result, value.some)>>,
                  used |-> Range(filtered)]
         [] stack.kind = "Negation" ->
              IF filtered = <<>> THEN [out |-> <<result>>, used |-> {}]
              ELSE [out |-> <<>>, used |-> {Head(filtered)}]

\* Stack::evaluate: the partial results it returns and the buffered events
\* it used for them
Evaluate(stack, buffer, result) ==
    LET filtered == SelectSeq(buffer, LAMBDA evt : CheckEvt(stack, result, evt))
    IN CASE stack.kind = "Each" ->
              [out |-> [k \in DOMAIN filtered |-> push_event(result, filtered[k])],
               used |-> Range(filtered)]
         [] stack.kind = "First" ->
              IF filtered = <<>> THEN [out |-> <<>>, used |-> {}]
              ELSE [out |-> <<push_event(result, Head(filtered))>>, used |-> {Head(filtered)}]
         [] stack.kind = "Last" ->
              IF filtered = <<>> THEN [out |-> <<>>, used |-> {}]
              ELSE [out |-> <<push_event(result, Last(filtered))>>, used |-> {Last(filtered)}]
         [] stack.kind \in Aggregators ->
              LET value == compute_aggregate(stack.kind, [k \in DOMAIN filtered |-> filtered[k].val])
              IN [out |-> IF value = None THEN <<>> ELSE <<push_aggregate(result, value.some)>>,
                  used |-> Range(filtered)]
         [] stack.kind = "Negation" ->
              IF filtered = <<>> THEN [out |-> <<result>>, used |-> {}]
              ELSE [out |-> <<>>, used |-> {Head(filtered)}]

\* RuleStacks::remove_old_events: each stack keeps the events not older
\* than the oldest event left in the stack its window hangs from, the
\* trigger standing for predicate 0 and for an emptied stack
RECURSIVE RemoveOldEvents(_, _, _, _)
RemoveOldEvents(i, buffers, oldest_times, trigger_time) ==
    IF i > Len(buffers) THEN buffers
    ELSE LET prev == oldest_times[stackRule[i].upper + 1]
             kept == RetainFrom(buffers[i], prev)
             time == IF kept = <<>> THEN trigger_time ELSE Head(kept).time
         IN RemoveOldEvents(i + 1, [buffers EXCEPT ![i] = kept],
                            Append(oldest_times, time), trigger_time)

\* RuleStacks::process, the fold over the stackBuffers: the calls of
\* Stack::evaluate it makes, each with the events it used
RECURSIVE EvaluateAll(_, _, _, _)
EvaluateAll(i, buffers, previous, log) ==
    IF i > Len(buffers) \/ previous = <<>> THEN log
    ELSE LET calls_i == [k \in DOMAIN previous |->
                            Evaluate(stackRule[i], buffers[i], previous[k])]
             current == Flatten([k \in DOMAIN previous |-> calls_i[k].out])
         IN EvaluateAll(i + 1, buffers, current,
                log \cup {[i |-> i, result |-> previous[k], used |-> calls_i[k].used,
                           n |-> Len(calls_i[k].out), out |-> calls_i[k].out] :
                                k \in DOMAIN previous})

StackInit ==
    /\ stackRule \in RuleShapes
    /\ stackBuffers = [i \in DOMAIN stackRule |-> <<>>]
    /\ lastTime = 0
    /\ calls = 0
    /\ lastEvent = <<>>
    /\ returnedBatch = <<>>
    /\ evicted = FALSE
    /\ consumed = <<>>
    /\ evalLog = {}

StackParked ==
    /\ stackRule = <<>>
    /\ stackBuffers = <<>>
    /\ lastTime = 0
    /\ calls = 0
    /\ lastEvent = <<>>
    /\ returnedBatch = <<>>
    /\ evicted = FALSE
    /\ consumed = <<>>
    /\ evalLog = {}

(***************************************************************************)
(* RuleStacks::process(event).  Events arrive in chronological order.      *)
(***************************************************************************)
RuleStacksProcess(ty, time, val) ==
    /\ calls < MaxCalls
    /\ time >= lastTime
    /\ LET event == [id |-> calls + 1, ty |-> ty, time |-> time, val |-> val]
           offered == [i \in DOMAIN stackBuffers |-> StackProcess(stackRule[i], stackBuffers[i], event)]
       IN /\ lastEvent' = event
          /\ IF IsSatisfied(event)
             THEN LET kept == RemoveOldEvents(1, offered, <<event.time>>, event.time)
                  IN /\ stackBuffers' = kept
                     /\ evicted' = TRUE
                     /\ evalLog' = EvaluateAll(1, kept, <<with_trigger(event)>>, {})
             ELSE /\ stackBuffers' = offered
                  /\ evicted' = FALSE
                  /\ evalLog' = {}
    /\ returnedBatch' = <<>>
    /\ consumed' = <<>>
    /\ calls' = calls + 1
    /\ lastTime' = time
    /\ UNCHANGED stackRule
    /\ UNCHANGED notStack

(***************************************************************************)
(* Stack::evaluate, called on one stack with a partial result: a trigger,  *)
(* and for the second stack an event of the first stack after it.          *)
(***************************************************************************)
Triggers == {[id |-> 0, ty |-> 1, time |-> t, val |-> 1] : t \in Times}

ResultsFor(i) ==
    IF i = 1 THEN {with_trigger(t) : t \in Triggers}
    ELSE {push_event(with_trigger(t), e) : t \in Triggers, e \in Range(stackBuffers[1])}

StackEvaluate(i, result) ==
    /\ i \in DOMAIN stackRule
    /\ result \in ResultsFor(i)
    /\ LET call == Evaluate(stackRule[i], stackBuffers[i], result)
       IN evalLog' = {[i |-> i, result |-> result, used |-> call.used, n |-> Len(call.out),
                       out |-> call.out]}
    /\ consumed' = <<>>
    /\ UNCHANGED << stackRule, stackBuffers, lastTime, calls, lastEvent, returnedBatch, evicted >>
    /\ UNCHANGED notStack

\* Stack::remove_old_events(time), called on one stack
StackRemoveOldEvents(i, time) ==
    /\ i \in DOMAIN stackRule
    /\ stackBuffers' = [stackBuffers EXCEPT ![i] = RetainFrom(stackBuffers[i], time)]
    /\ evalLog' = {}
    /\ consumed' = <<>>
    /\ UNCHANGED << stackRule, lastTime, calls, lastEvent, returnedBatch, evicted >>
    /\ UNCHANGED notStack

\* The places that hold a handle (an Rc<Event>) of an event: the slots of a
\* stack's buffer, and the partial result or local of a caller.  A caller's
\* handle is a clone, since Stack.events is borrowed by the call itself.
SlotAddress(k) == [where |-> "events", index |-> k]

CallerAddresses == {[where |-> "caller", index |-> k] : k \in 0..1}

\* ptr_eq(a, b) with a and b references to handles: the addresses of the two
\* handles are compared, not the events they point to
ptr_eq(a, b) == a = b

\* Stack::consume(event): events.retain(|evt| !ptr_eq(evt, event))
RECURSIVE Retained(_, _, _)
Retained(buffer, k, address) ==
    IF k > Len(buffer) THEN <<>>
    ELSE (IF ptr_eq(SlotAddress(k), address) THEN <<>> ELSE <<buffer[k]>>)
         \o Retained(buffer, k + 1, address)

StackConsume(i, id, address) ==
    /\ i \in DOMAIN stackRule
    /\ \E k \in DOMAIN stackBuffers[i] : stackBuffers[i][k].id = id
    /\ stackBuffers' = [stackBuffers EXCEPT ![i] = Retained(stackBuffers[i], 1, address)]
    /\ consumed' = [i |-> i, id |-> id]
    /\ evalLog' = {}
    /\ UNCHANGED << stackRule, lastTime, calls, lastEvent, returnedBatch, evicted >>
    /\ UNCHANGED notStack

StackNext ==
    \/ \E ty \in TupleIds, time \in Times, val \in Vals : RuleStacksProcess(ty, time, val)
    \/ \E i \in DOMAIN stackRule : \E result \in ResultsFor(i) : StackEvaluate(i, result)
    \/ \E i \in DOMAIN stackRule, time \in Times : StackRemoveOldEvents(i, time)
    \/ \E i \in DOMAIN stackRule, id \in 1..MaxCalls, address \in CallerAddresses :
            StackConsume(i, id, address)

(***************************************************************************)
(* STACKS: the claims.                                                     *)
(***************************************************************************)
\* The window of a logged evaluate call, from the rule and the partial
\* result alone
WindowUpper(c) == c.result[stackRule[c.i].upper + 1].ev.time

WindowLower(c) ==
    IF stackRule[c.i].bound.kind = "Within"
    THEN WindowUpper(c) - stackRule[c.i].bound.window
    ELSE c.result[stackRule[c.i].bound.lower + 1].ev.time

\* C8: every buffered event that Stack.evaluate binds, feeds to an
\* aggregate or lets block a negation has lower <= time < upper, upper the
\* time bound in the partial result at timing.upper and lower either
\* upper - window or the time bound at the Between lower predicate.
C8_WindowSoundness ==
    \A c \in evalLog : \A e \in c.used :
        WindowLower(c) <= e.time /\ e.time < WindowUpper(c)

C8_Witness ==
    \E c \in evalLog :
        /\ c.used # {}
        /\ stackRule[c.i].bound.kind = "Between"
        /\ \E e \in Range(stackBuffers[c.i]) :
                e.time >= WindowUpper(c) \/ e.time < WindowLower(c)

C10_TriggerExclusivity ==
    [][(calls' = calls + 1 /\ ~(lastEvent'.ty = 1 /\ lastEvent'.val >= 1)) =>
            /\ returnedBatch' = <<>>
            /\ evalLog' = {}
            /\ ~evicted'
            /\ \A i \in DOMAIN stackRule :
                stackBuffers'[i] =
                    IF lastEvent'.ty = stackRule[i].ty
                       /\ \A k \in DOMAIN stackRule[i].constraints :
                            stackRule[i].constraints[k] = ValAtLeastOne => lastEvent'.val >= 1
                    THEN Append(stackBuffers[i], lastEvent')
                    ELSE stackBuffers[i]]_vars

C10_Witness ==
    /\ calls >= 2
    /\ ~evicted
    /\ lastEvent.ty = 1 /\ lastEvent.val = 0
    /\ \E i \in DOMAIN stackRule :
        \E e \in Range(stackBuffers[i]) : e.time < lastEvent.time

\* The buffered events of a logged evaluate call that lie in its window and
\* satisfy the global constraints
Eligible(c) ==
    {e \in Range(stackBuffers[c.i]) :
        /\ WindowLower(c) <= e.time /\ e.time < WindowUpper(c)
        /\ IsGloballySatisfied(stackRule[c.i], c.result, e)}

\* C11: on an event stack, Each returns one partial result per event that
\* is in the window and globally satisfied (none for none, n for n), each
\* the input extended with that event; First returns exactly one, bound to
\* an earliest such event, Last exactly one, bound to a latest such event,
\* and both return nothing when there is no such event.
C11_SelectionModes ==
    \A c \in evalLog :
        LET kind == stackRule[c.i].kind
            bound == {c.out[k] : k \in DOMAIN c.out}
        IN kind \in Selections =>
            /\ kind = "Each" =>
                    /\ Len(c.out) = Cardinality(Eligible(c))
                    /\ bound = {push_event(c.result, e) : e \in Eligible(c)}
            /\ kind = "First" =>
                    IF Eligible(c) = {} THEN c.out = <<>>
                    ELSE /\ Len(c.out) = 1
                         /\ \E e \in Eligible(c) :
                                /\ c.out[1] = push_event(c.result, e)
                                /\ \A x \in Eligible(c) : e.time <= x.time
            /\ kind = "Last" =>
                    IF Eligible(c) = {} THEN c.out = <<>>
                    ELSE /\ Len(c.out) = 1
                         /\ \E e \in Eligible(c) :
                                /\ c.out[1] = push_event(c.result, e)
                                /\ \A x \in Eligible(c) : e.time >= x.time

\* The partial results that leave the last stack of the rule in the logged
\* evaluation, each as the call and its place in what the call returned
Surviving(log) ==
    UNION {{<<c, k>> : k \in DOMAIN c.out} : c \in {d \in log : d.i = Len(stackRule)}}

\* The tuple of the rule's event template
TemplateTy == RuleCatalog[1].out

\* C15: when the event satisfies the trigger, RuleStacks.process returns
\* one new event per partial result that survives the last stack, each of
\* the template's tuple and with the time of the trigger, so the batch is
\* empty only when no partial result survives.
C15_OneEventPerSurvivor ==
    [][(calls' = calls + 1 /\ lastEvent'.ty = 1 /\ lastEvent'.val >= 1) =>
            /\ Len(returnedBatch') = Cardinality(Surviving(evalLog'))
            /\ \A j \in DOMAIN returnedBatch' :
                    /\ returnedBatch'[j].ty = TemplateTy
                    /\ returnedBatch'[j].time = lastEvent'.time]_vars

\* Whether an expression has a Parameter sub-expression
RECURSIVE HasParameter(_)
HasParameter(expr) ==
    \/ expr.node = "Parameter"
    \/ expr.node = "UnaryOperation" /\ HasParameter(expr.expression)
    \/ expr.node = "BinaryOperation" /\ (HasParameter(expr.left) \/ HasParameter(expr.right))

\* The conjunction of all the constraints of a stack on a candidate event,
\* in the context of a partial result
AllConstraintsHold(stack, result, event) ==
    \A k \in DOMAIN stack.constraints :
        check_expr(CompleteContext(result, event), stack.constraints[k])

\* The constraints without a parameter, on the event alone
ParameterFreeHold(stack, event) ==
    \A k \in DOMAIN stack.constraints :
        ~HasParameter(stack.constraints[k]) =>
            check_expr(SimpleContext(event), stack.constraints[k])

\* C14: every constraint of a stack is in exactly one of local_exprs and
\* global_exprs, in local_exprs iff it has no Parameter sub-expression; the
\* stack buffers an event iff the tuple matches and the constraints without
\* parameter hold on it, and at match time it takes, of the events in the
\* window, those on which the conjunction of all the constraints holds.
C14_Partition ==
    \A i \in DOMAIN stackRule :
        LET stack == stackRule[i]
        IN /\ Len(local_exprs(stack)) + Len(global_exprs(stack)) = Len(stack.constraints)
           /\ \A k \in DOMAIN stack.constraints :
                LET expr == stack.constraints[k]
                IN /\ expr \in Range(local_exprs(stack)) <=> ~HasParameter(expr)
                   /\ expr \in Range(global_exprs(stack)) <=> HasParameter(expr)

C14_AtMatch ==
    \A c \in evalLog :
        stackRule[c.i].kind = "Each" =>
            c.used = {e \in Range(stackBuffers[c.i]) :
                        /\ WindowLower(c) <= e.time /\ e.time < WindowUpper(c)
                        /\ AllConstraintsHold(stackRule[c.i], c.result, e)}

C14_AtIngest ==
    calls' = calls + 1 =>
        \A i \in DOMAIN stackRule :
            lastEvent' \in Range(stackBuffers'[i]) <=>
                (lastEvent'.ty = stackRule[i].ty /\ ParameterFreeHold(stackRule[i], lastEvent'))

C14_LocalitySplit == [](C14_Partition /\ C14_AtMatch) /\ [][C14_AtIngest]_vars

C14_Witness ==
    /\ stackRule[1].constraints = <<ValNotBelowParameter, ValAtLeastOne>>
    /\ \E c \in evalLog :
            /\ stackRule[c.i].kind = "Each"
            /\ c.used # {}
            /\ lastEvent.ty = 2 /\ lastEvent.val = 0 /\ lastEvent \notin Range(stackBuffers[1])

\* C13: over an empty filtered set, a Sum and a Count aggregate have the
\* value 0 and the node returns one partial result, the input extended with
\* that value; an Avg, Min or Max aggregate has no value and the node
\* returns no partial result.
C13_EmptyAggregate ==
    \A c \in evalLog :
        LET kind == stackRule[c.i].kind
        IN (kind \in Aggregators /\ Eligible(c) = {}) =>
                IF kind \in {"Sum", "Count"}
                THEN c.out = <<Append(c.result, [kind |-> "aggregate", ev |-> <<>>, value |-> 0])>>
                ELSE c.out = <<>>

C13_Witness ==
    \E c \in evalLog :
        /\ stackRule[c.i].kind = "Min"
        /\ Eligible(c) = {}
        /\ stackBuffers[c.i] # <<>>
        /\ c.out = <<>>

C11_Witness ==
    \E c \in evalLog :
        /\ stackRule[c.i].kind = "First"
        /\ Len(c.out) = 1
        /\ \E e, x \in Eligible(c) : e.time < x.time
        /\ \E e \in Range(stackBuffers[c.i]) : e \notin Eligible(c)

\* The window of the stack of predicate i, followed along Between bounds
RECURSIVE PropagatedWindow(_, _)
PropagatedWindow(rule, i) ==
    IF rule[i].bound.kind = "Within" THEN rule[i].bound.window
    ELSE PropagatedWindow(rule, rule[i].bound.lower)

\* C32: after the setup of a rule, a stack with timing Within(w) has
\* max_window = w and a stack with timing Between(lower) has the max_window
\* of the stack of predicate lower.
C32_MaxWindowPropagation ==
    \A i \in DOMAIN stackRule :
        max_window(stackRule[i]) = PropagatedWindow(stackRule, i)

\* C31: consume(event) removes from the buffer of the stack the entries that
\* are the event instance it is given, and leaves every other buffered
\* event, those of equal content too, in place and in order.
C31_Consume ==
    consumed' # <<>> =>
        /\ stackBuffers'[consumed'.i] =
                SelectSeq(stackBuffers[consumed'.i], LAMBDA evt : evt.id # consumed'.id)
        /\ \A j \in DOMAIN stackBuffers : j # consumed'.i => stackBuffers'[j] = stackBuffers[j]

C31_ConsumeByIdentity == [][C31_Consume]_vars

\* C30: when process evaluates a trigger, every stack drops exactly its
\* buffered events older than trigger time - max_window and keeps the
\* others, so an event still inside a window of this trigger is there when
\* the stack is evaluated.
C30_Eviction ==
    (calls' = calls + 1 /\ IsSatisfied(lastEvent')) =>
        \A i \in DOMAIN stackRule :
            stackBuffers'[i] =
                SelectSeq(StackProcess(stackRule[i], stackBuffers[i], lastEvent'),
                          LAMBDA evt : evt.time >= lastEvent'.time - max_window(stackRule[i]))

C30_WindowEviction == [][C30_Eviction]_vars

(***************************************************************************)
(* STATIC NODE: SqlContext, SqlFetcher and SQLiteDriver.                   *)
(*                                                                         *)
(* The node belongs to a predicate on a static tuple, a table with one     *)
(* column col0, and has the constraint col0 >= x, x the parameter 0 of the *)
(* trigger.  The table does not change while the engine runs.              *)
(***************************************************************************)
Rows == 1..MaxRow

DriverPredicates ==
    {[ty |-> "UnorderedStatic", parameters |-> 0],
     [ty |-> "UnorderedStatic", parameters |-> 1],
     [ty |-> "StaticNegation", parameters |-> 0]}

RECURSIVE Ascending(_)
Ascending(S) ==
    IF S = {} THEN <<>>
    ELSE LET least == CHOOSE r \in S : \A q \in S : r <= q
         IN <<least>> \o Ascending(S \ {least})

\* SqlContext::encode_predicate: the statement, as its selection and its
\* LIMIT; an empty selection is written as the literal 1
EncodePredicate(pred) ==
    LET selection == IF pred.ty = "UnorderedStatic" /\ pred.parameters > 0
                     THEN "col0" ELSE ""
    IN [selection |-> IF selection # "" THEN selection ELSE "1",
        limit1 |-> pred.ty = "StaticNegation"]

\* The rows SQLite returns for the statement with the input parameters of
\* the key bound
Query(statement, input_params) ==
    LET matching == Ascending({r \in table : r >= input_params[1]})
        projected == [k \in DOMAIN matching |->
                        IF statement.selection = "1" THEN <<1>> ELSE <<matching[k]>>]
    IN IF statement.limit1 /\ projected # <<>> THEN <<projected[1]>> ELSE projected

\* SqlFetcher::prepare_key
prepare_key(pred, result) ==
    [statement |-> EncodePredicate(pred), input_params |-> <<result[1].ev.val>>]

\* SqlFetcher::fetch: the value of the entry, or the panic of an unwrap
FetchFailed == [kind |-> "Panic"]

SqlFetch(pred, key) ==
    LET rows == Query(key.statement, key.input_params)
    IN CASE pred.ty = "UnorderedStatic" /\ pred.parameters > 0 ->
                [kind |-> "Values", chunk_size |-> pred.parameters,
                 cached |-> Flatten(rows)]
         [] pred.ty = "UnorderedStatic" /\ pred.parameters = 0 ->
                IF rows = <<>> THEN FetchFailed
                ELSE [kind |-> "Count", count |-> rows[1][1]]
         [] pred.ty = "StaticNegation" ->
                [kind |-> "Exists", exists |-> rows # <<>>]

insert_parameter(result, value) ==
    Append(result, [kind |-> "parameter", ev |-> <<>>, value |-> value])

\* SQLiteDriver::evaluate, the match on the value of the entry
EmitExistsInverted(value, result) ==
    CASE value.kind = "Values" ->
            [k \in DOMAIN value.cached |-> insert_parameter(result, value.cached[k])]
      [] value.kind = "Count" -> [k \in 1..value.count |-> result]
      [] value.kind = "Exists" -> IF value.exists THEN <<result>> ELSE <<>>

Emit(value, result) ==
    CASE value.kind = "Values" ->
            [k \in DOMAIN value.cached |-> insert_parameter(result, value.cached[k])]
      [] value.kind = "Count" -> [k \in 1..value.count |-> result]
      [] value.kind = "Exists" -> IF ~value.exists THEN <<result>> ELSE <<>>

DriverInit ==
    /\ table \in SUBSET Rows
    /\ driverPredicate \in DriverPredicates
    /\ driverCache = <<>>
    /\ driverLog = <<>>

DriverParked ==
    /\ table = {}
    /\ driverPredicate = [ty |-> "None", parameters |-> 0]
    /\ driverCache = <<>>
    /\ driverLog = <<>>

(***************************************************************************)
(* SQLiteDriver::evaluate(result): the key, the entry from the cache or,   *)
(* on a miss, from SqlFetcher::fetch and then stored, and the partial      *)
(* results for it.  A panic in fetch ends the call with nothing stored.    *)
(* SQLiteDriver::new makes a driver for a predicate on a static tuple      *)
(* only.                                                                   *)
(***************************************************************************)
DriverEvaluate(x) ==
    /\ driverPredicate \in DriverPredicates
    /\ Len(driverLog) < MaxDriverCalls
    /\ LET result == with_trigger([id |-> 0, ty |-> 1, time |-> 0, val |-> x])
           key == prepare_key(driverPredicate, result)
           hit == key \in DOMAIN driverCache
           value == IF hit THEN driverCache[key] ELSE SqlFetch(driverPredicate, key)
       IN IF value = FetchFailed
          THEN /\ driverLog' = Append(driverLog,
                        [result |-> result, failed |-> TRUE, hit |-> hit, out |-> <<>>])
               /\ UNCHANGED driverCache
          ELSE /\ driverLog' = Append(driverLog,
                        [result |-> result, failed |-> FALSE, hit |-> hit,
                         out |-> Emit(value, result)])
               /\ driverCache' = IF hit THEN driverCache ELSE (key :> value) @@ driverCache
    /\ UNCHANGED << table, driverPredicate >>
    /\ UNCHANGED notDriver

DriverNext == \E x \in Rows : DriverEvaluate(x)

NodesNext == StackNext \/ DriverNext

(***************************************************************************)
(* STATIC NODE: the claims.                                                *)
(***************************************************************************)
\* The rows of the table that satisfy the constraint of the node for the
\* partial result of a logged call
Matching(c) == {r \in table : r >= c.result[1].ev.val}

\* C12: a negation node, on events or on a static table, returns exactly
\* one partial result, equal to its input, when no event (row) is in the
\* filtered set, and returns nothing otherwise.
C12_Negation ==
    /\ \A c \in evalLog :
            stackRule[c.i].kind = "Negation" =>
                c.out = IF Eligible(c) = {} THEN <<c.result>> ELSE <<>>
    /\ \A k \in DOMAIN driverLog :
            driverPredicate.ty = "StaticNegation" =>
                /\ ~driverLog[k].failed
                /\ driverLog[k].out =
                        IF Matching(driverLog[k]) = {} THEN <<driverLog[k].result>> ELSE <<>>

C12_Witness ==
    /\ driverPredicate.ty = "StaticNegation"
    /\ \E k, l \in DOMAIN driverLog :
            /\ driverLog[k].out = <<>> /\ Cardinality(Matching(driverLog[k])) >= 2
            /\ driverLog[l].out # <<>>

C12_WitnessEvents ==
    \E c \in evalLog :
        /\ stackRule[c.i].kind = "Negation"
        /\ c.out = <<>>
        /\ \E e \in Range(stackBuffers[c.i]) : e \notin Eligible(c)

\* C20: an UnorderedStatic node without output parameters returns n copies
\* of its input, n the number of rows that match, and returns none without
\* failing when no row matches.
C20_CountCopies ==
    \A k \in DOMAIN driverLog :
        (driverPredicate.ty = "UnorderedStatic" /\ driverPredicate.parameters = 0) =>
            /\ ~driverLog[k].failed
            /\ driverLog[k].out =
                    [j \in 1..Cardinality(Matching(driverLog[k])) |-> driverLog[k].result]

(***************************************************************************)
(* REGISTRY: TRex::declare.                                                *)
(***************************************************************************)
TupleNames == {"a", "b", "c"}

TupleDeclarations == {[id |-> id, name |-> name] : id \in TupleIds, name \in TupleNames}

\* TRex::declare: the registry after the call, and whether the call panics
DeclareOverwriting(registry, tuple) ==
    [tuples |-> (tuple.id :> tuple) @@ registry, panic |-> tuple.id \in DOMAIN registry]

DeclareEntry(registry, tuple) ==
    IF tuple.id \notin DOMAIN registry
    THEN [tuples |-> (tuple.id :> tuple) @@ registry, panic |-> FALSE]
    ELSE [tuples |-> registry, panic |-> TRUE]

RegistryInit ==
    /\ tuples = <<>>
    /\ declareCalls = 0
    /\ declarePanic = FALSE

RegistryParked == RegistryInit

Declare(tuple) ==
    /\ declareCalls < MaxDeclares
    /\ LET after == DeclareEntry(tuples, tuple)
       IN /\ tuples' = after.tuples
          /\ declarePanic' = after.panic
    /\ declareCalls' = declareCalls + 1
    /\ UNCHANGED notRegistry

RegistryNext == \E tuple \in TupleDeclarations : Declare(tuple)

\* C16: a declare of an id that is registered already is rejected (it
\* panics) and leaves the registry as it was: the declaration under that id
\* is still the first one, and no entry was added, removed or changed.  A
\* declare of a new id adds its declaration and changes no other entry.
C16_RedeclareRejected ==
    [][declareCalls' = declareCalls + 1 =>
            /\ \A id \in DOMAIN tuples : id \in DOMAIN tuples' /\ tuples'[id] = tuples[id]
            /\ declarePanic' => DOMAIN tuples' = DOMAIN tuples
            /\ ~declarePanic' => Cardinality(DOMAIN tuples') = Cardinality(DOMAIN tuples) + 1]_vars

C16_Witness ==
    /\ declarePanic
    /\ Cardinality(DOMAIN tuples) >= 2
    /\ \E id \in DOMAIN tuples : tuples[id].name = "a"
    /\ \E id \in DOMAIN tuples : tuples[id].name = "b"

(***************************************************************************)
(* TYPES: the operator typing of the type checker (unary::get_type,        *)
(* binary::get_type under infer_expression) and the operators of the       *)
(* evaluator (unary::apply, binary::apply).                                *)
(*                                                                         *)
(* A value carries its type.  A Float is kept as a number of quarters, a   *)
(* Str as the sequence of its characters' codes.                           *)
(***************************************************************************)
BasicTypes == {"Int", "Float", "Bool", "Str"}

IntValue(x) == [ty |-> "Int", int |-> x, quarters |-> 0, bool |-> FALSE, chars |-> <<>>]

FloatValue(q) == [ty |-> "Float", int |-> 0, quarters |-> q, bool |-> FALSE, chars |-> <<>>]

BoolValue(b) == [ty |-> "Bool", int |-> 0, quarters |-> 0, bool |-> b, chars |-> <<>>]

StrValue(c) == [ty |-> "Str", int |-> 0, quarters |-> 0, bool |-> FALSE, chars |-> c]

\* The operands: 0, 1, 2; 1.0, 2.0; false, true; "a", "b", "ab"
Values ==
    {IntValue(x) : x \in 0..2} \cup {FloatValue(q) : q \in {4, 8}}
    \cup {BoolValue(b) : b \in BOOLEAN}
    \cup {StrValue(c) : c \in {<<1>>, <<2>>, <<1, 2>>}}

UnaryOperators == {"Minus", "Not"}

ArithmeticOperators == {"Plus", "Minus", "Times", "Division"}

EqualityOperators == {"Equal", "NotEqual"}

OrderOperators == {"GreaterThan", "GreaterEqual", "LowerThan", "LowerEqual"}

BinaryOperators == ArithmeticOperators \cup EqualityOperators \cup OrderOperators

TypeOk(ty) == [ok |-> TRUE, ty |-> ty]

TypeErr == [ok |-> FALSE, ty |-> "None"]

\* typeinference.rs, unary::get_type
unary_get_type(operator, ty) ==
    CASE operator = "Minus" -> IF ty \in {"Int", "Float"} THEN TypeOk(ty) ELSE TypeErr
      [] operator = "Not" -> IF ty = "Bool" THEN TypeOk(ty) ELSE TypeErr

\* typeinference.rs, binary::get_type
binary_get_type(operator, left, right) ==
    CASE operator \in ArithmeticOperators ->
            IF left = "Int" /\ right = "Int" THEN TypeOk("Int")
            ELSE IF left = "Float" /\ right = "Float" THEN TypeOk("Float")
            ELSE TypeErr
      [] operator \in EqualityOperators ->
            IF left = right THEN TypeOk("Bool") ELSE TypeErr
      [] operator \in OrderOperators ->
            IF left = right /\ left \in {"Int", "Float", "Str"} THEN TypeOk("Bool")
            ELSE TypeErr

Computed(value) == [panic |-> FALSE, value |-> value]

OperatorPanic == [panic |-> TRUE, value |-> IntValue(0)]

\* operations.rs, unary::apply
unary_apply(operator, value) ==
    CASE operator = "Minus" ->
            IF value.ty = "Int" THEN Computed(IntValue(0 - value.int))
            ELSE IF value.ty = "Float" THEN Computed(FloatValue(0 - value.quarters))
            ELSE OperatorPanic
      [] operator = "Not" ->
            IF value.ty = "Bool" THEN Computed(BoolValue(~value.bool)) ELSE OperatorPanic

\* The order of String: lexicographic
RECURSIVE StrLess(_, _)
StrLess(a, b) ==
    IF b = <<>> THEN FALSE
    ELSE IF a = <<>> THEN TRUE
    ELSE IF Head(a) # Head(b) THEN Head(a) < Head(b)
    ELSE StrLess(Tail(a), Tail(b))

\* The comparisons of operations.rs on two values of one type
Less(left, right) ==
    CASE left.ty = "Int" -> left.int < right.int
      [] left.ty = "Float" -> left.quarters < right.quarters
      [] left.ty = "Str" -> StrLess(left.chars, right.chars)

\* operations.rs, binary::apply.  The division of an Int by 0 panics.
binary_apply(operator, left, right) ==
    LET both(ty) == left.ty = ty /\ right.ty = ty
    IN CASE operator = "Plus" ->
              IF both("Int") THEN Computed(IntValue(left.int + right.int))
              ELSE IF both("Float") THEN Computed(FloatValue(left.quarters + right.quarters))
              ELSE IF both("Str") THEN Computed(StrValue(left.chars \o right.chars))
              ELSE OperatorPanic
         [] operator = "Minus" ->
              IF both("Int") THEN Computed(IntValue(left.int - right.int))
              ELSE IF both("Float") THEN Computed(FloatValue(left.quarters - right.quarters))
              ELSE OperatorPanic
         [] operator = "Times" ->
              IF both("Int") THEN Computed(IntValue(left.int * right.int))
              ELSE IF both("Float")
              THEN Computed(FloatValue((left.quarters * right.quarters) \div 4))
              ELSE OperatorPanic
         [] operator = "Division" ->
              IF both("Int")
              THEN IF right.int = 0 THEN OperatorPanic
                   ELSE Computed(IntValue(left.int \div right.int))
              ELSE IF both("Float")
              THEN Computed(FloatValue((left.quarters * 4) \div right.quarters))
              ELSE OperatorPanic
         [] operator \in EqualityOperators ->
              IF left.ty = right.ty
              THEN Computed(BoolValue((left = right) = (operator = "Equal")))
              ELSE OperatorPanic
         [] operator \in OrderOperators ->
              IF left.ty = right.ty /\ left.ty # "Bool"
              THEN Computed(BoolValue(
                    CASE operator = "GreaterThan" -> Less(right, left)
                      [] operator = "GreaterEqual" -> ~Less(left, right)
                      [] operator = "LowerThan" -> Less(left, right)
                      [] operator = "LowerEqual" -> ~Less(right, left)))
              ELSE OperatorPanic

NoCall == [operator |-> "None", operands |-> <<>>, inferred |-> TypeErr,
           computed |-> OperatorPanic]

TypesInit == typeCall = NoCall

TypesParked == TypesInit

\* infer_expression and evaluate_expression on a unary operation over an
\* immediate value
CheckAndApplyUnary(operator, value) ==
    /\ typeCall' = [operator |-> operator, operands |-> <<value>>,
                    inferred |-> unary_get_type(operator, value.ty),
                    computed |-> unary_apply(operator, value)]
    /\ UNCHANGED notTypes

\* infer_expression and evaluate_expression on a binary operation over two
\* immediate values
CheckAndApplyBinary(operator, left, right) ==
    /\ typeCall' = [operator |-> operator, operands |-> <<left, right>>,
                    inferred |-> binary_get_type(operator, left.ty, right.ty),
                    computed |-> binary_apply(operator, left, right)]
    /\ UNCHANGED notTypes

TypesNext ==
    \/ \E operator \in UnaryOperators, value \in Values : CheckAndApplyUnary(operator, value)
    \/ \E operator \in BinaryOperators, left \in Values, right \in Values :
            CheckAndApplyBinary(operator, left, right)

(***************************************************************************)
(* TYPES: the claims.                                                      *)
(***************************************************************************)
\* The call divides an Int by zero: a failure of the values, not of the types
DividesByZero ==
    /\ typeCall.operator = "Division"
    /\ Len(typeCall.operands) = 2
    /\ typeCall.operands[2] = IntValue(0)

\* C33: for every unary and binary operator and every combination of
\* operand types, the type checker accepts the combination iff the
\* evaluation is defined for it, and the inferred type is the type of the
\* computed value; + on two Str is accepted with type Str.
C33_TypingAgrees ==
    (typeCall # NoCall /\ ~DividesByZero) =>
        /\ typeCall.inferred.ok <=> ~typeCall.computed.panic
        /\ typeCall.inferred.ok => typeCall.computed.value.ty = typeCall.inferred.ty

(***************************************************************************)
(* THE TASKS OF A PUBLISH.  The engine thread submits one task per stack   *)
(* of the event's tuple to the thread pool and takes as many batches from  *)
(* the channel; a task locks its rule's stacks, evaluates the rule's       *)
(* static predicates through the CachedFetcher over the shared cache and   *)
(* the connection pool, sends its batch and unlocks.                       *)
(***************************************************************************)
\* The rules: the tuple that triggers them, the key of their static
\* predicate, how many times a task evaluates it, and the tuple of the
\* event they emit (0 for none).  No emission triggers its own rule again.
TaskRules ==
    << [trig |-> 1, key |-> 1, fetches |-> 2, emits |-> 2],
       [trig |-> 1, key |-> 1, fetches |-> 1, emits |-> 0],
       [trig |-> 2, key |-> 2, fetches |-> 1, emits |-> 0] >>

TaskTuples == {TaskRules[r].trig : r \in DOMAIN TaskRules}

\* reverse_index[ty]: the stacks of the rules with a predicate on the tuple
TaskStacks(ty) ==
    SelectSeq([r \in DOMAIN TaskRules |-> r], LAMBDA r : TaskRules[r].trig = ty)

IdlePublish == [st |-> "idle", event |-> 0, next |-> 0, need |-> 0, got |-> <<>>, todo |-> <<>>]

IdleTask == [st |-> "idle", rule |-> 0, left |-> 0]

TasksInit ==
    /\ publishing = IdlePublish
    /\ taskQueue = <<>>
    /\ \E n \in 1..MaxThreads : taskWorkers = [t \in 1..n |-> IdleTask]
    /\ stackMutex = [r \in DOMAIN TaskRules |-> 0]
    /\ cacheGuard = 0
    /\ cachedKeys = {}
    /\ pool_size \in 1..MaxPoolSize
    /\ connections = pool_size
    /\ batchChannel = <<>>
    /\ publishCalls = 0

TasksParked ==
    /\ publishing = IdlePublish
    /\ taskQueue = <<>>
    /\ taskWorkers = <<>>
    /\ stackMutex = <<>>
    /\ cacheGuard = 0
    /\ cachedKeys = {}
    /\ pool_size = 0
    /\ connections = 0
    /\ batchChannel = <<>>
    /\ publishCalls = 0

\* The client calls publish(event)
PublishCall(ty) ==
    /\ publishing.st = "idle" /\ publishing.todo = <<>>
    /\ publishCalls < MaxPublishCalls
    /\ publishCalls' = publishCalls + 1
    /\ publishing' = [IdlePublish EXCEPT !.st = "submit", !.event = ty, !.next = 1]
    /\ UNCHANGED << taskQueue, taskWorkers, stackMutex, cacheGuard, cachedKeys,
                    pool_size, connections, batchChannel >>
    /\ UNCHANGED notTasks

\* The recursive call publish(event) for the next event of a drained batch
PublishRecurse ==
    /\ publishing.st = "idle" /\ publishing.todo # <<>>
    /\ publishing' = [publishing EXCEPT !.st = "submit", !.event = Head(publishing.todo),
                                        !.next = 1, !.todo = Tail(publishing.todo)]
    /\ UNCHANGED << taskQueue, taskWorkers, stackMutex, cacheGuard, cachedKeys,
                    pool_size, connections, batchChannel, publishCalls >>
    /\ UNCHANGED notTasks

\* threadpool.execute for the next stack, or the end of the loop
PublishSubmit ==
    /\ publishing.st = "submit"
    /\ LET stacks == TaskStacks(publishing.event)
       IN IF publishing.next <= Len(stacks)
          THEN /\ taskQueue' = Append(taskQueue, stacks[publishing.next])
               /\ publishing' = [publishing EXCEPT !.next = @ + 1]
          ELSE /\ publishing' = [publishing EXCEPT !.st = "drain", !.need = Len(stacks),
                                                   !.got = <<>>]
               /\ UNCHANGED taskQueue
    /\ UNCHANGED << taskWorkers, stackMutex, cacheGuard, cachedKeys,
                    pool_size, connections, batchChannel, publishCalls >>
    /\ UNCHANGED notTasks

\* rx.iter().take(stacks.len()): one more batch, or the end of the drain
\* with the events of the batches put before what was left to publish
PublishDrain ==
    /\ publishing.st = "drain"
    /\ IF publishing.need = 0
       THEN /\ publishing' = [IdlePublish EXCEPT !.todo = publishing.got \o publishing.todo]
            /\ UNCHANGED batchChannel
       ELSE /\ batchChannel # <<>>
            /\ publishing' = [publishing EXCEPT !.need = @ - 1,
                                                !.got = @ \o Head(batchChannel)]
            /\ batchChannel' = Tail(batchChannel)
    /\ UNCHANGED << taskQueue, taskWorkers, stackMutex, cacheGuard, cachedKeys,
                    pool_size, connections, publishCalls >>
    /\ UNCHANGED notTasks

\* A pool thread takes the next job
TaskTake(t) ==
    /\ taskWorkers[t].st = "idle"
    /\ taskQueue # <<>>
    /\ taskWorkers' = [taskWorkers EXCEPT ![t] =
            [st |-> "start", rule |-> Head(taskQueue), left |-> 0]]
    /\ taskQueue' = Tail(taskQueue)
    /\ UNCHANGED << publishing, stackMutex, cacheGuard, cachedKeys, pool_size,
                    connections, batchChannel, publishCalls >>
    /\ UNCHANGED notTasks

\* stack.lock().unwrap()
TaskLockStack(t) ==
    /\ taskWorkers[t].st = "start"
    /\ stackMutex[taskWorkers[t].rule] = 0
    /\ stackMutex' = [stackMutex EXCEPT ![taskWorkers[t].rule] = t]
    /\ taskWorkers' = [taskWorkers EXCEPT ![t].st = "process",
                                          ![t].left = TaskRules[taskWorkers[t].rule].fetches]
    /\ UNCHANGED << publishing, taskQueue, cacheGuard, cachedKeys, pool_size,
                    connections, batchChannel, publishCalls >>
    /\ UNCHANGED notTasks

\* CachedFetcher::fetch, the first lock: a hit keeps the guard in the
\* value handed out, a miss drops it
TaskLookup(t) ==
    /\ taskWorkers[t].st = "process" /\ taskWorkers[t].left > 0
    /\ cacheGuard = 0
    /\ IF TaskRules[taskWorkers[t].rule].key \in cachedKeys
       THEN /\ cacheGuard' = GuardAfterLookup(t, TRUE)
            /\ taskWorkers' = [taskWorkers EXCEPT ![t].st = "cached"]
       ELSE /\ cacheGuard' = GuardAfterLookup(t, FALSE)
            /\ taskWorkers' = [taskWorkers EXCEPT ![t].st = "miss"]
    /\ UNCHANGED << publishing, taskQueue, stackMutex, cachedKeys, pool_size,
                    connections, batchChannel, publishCalls >>
    /\ UNCHANGED notTasks

\* SqlFetcher::fetch: self.pool.get() waits for an idle connection
TaskGetConnection(t) ==
    /\ taskWorkers[t].st = "miss"
    /\ connections > 0
    /\ connections' = connections - 1
    /\ taskWorkers' = [taskWorkers EXCEPT ![t].st = "query"]
    /\ UNCHANGED << publishing, taskQueue, stackMutex, cacheGuard, cachedKeys,
                    pool_size, batchChannel, publishCalls >>
    /\ UNCHANGED notTasks

\* SqlFetcher::fetch, the idle connections at its return: the pooled
\* connection is dropped with the function's locals
ConnectionsAfterFetchKept(idle) == idle

ConnectionsAfterFetch(idle) == idle + 1

\* SqlFetcher::fetch: the query, and the return
TaskQuery(t) ==
    /\ taskWorkers[t].st = "query"
    /\ connections' = ConnectionsAfterFetch(connections)
    /\ taskWorkers' = [taskWorkers EXCEPT ![t].st = "fetched"]
    /\ UNCHANGED << publishing, taskQueue, stackMutex, cacheGuard, cachedKeys,
                    pool_size, batchChannel, publishCalls >>
    /\ UNCHANGED notTasks

\* CachedFetcher::fetch, the second lock: the store is accepted and the
\* guard stays in the value handed out, or rejected and the guard dropped
TaskStore(t, accepted) ==
    /\ taskWorkers[t].st = "fetched"
    /\ cacheGuard = 0
    /\ IF accepted
       THEN /\ cachedKeys' = cachedKeys \cup {TaskRules[taskWorkers[t].rule].key}
            /\ cacheGuard' = t
            /\ taskWorkers' = [taskWorkers EXCEPT ![t].st = "cached"]
       ELSE /\ taskWorkers' = [taskWorkers EXCEPT ![t].st = "uncached"]
            /\ UNCHANGED << cachedKeys, cacheGuard >>
    /\ UNCHANGED << publishing, taskQueue, stackMutex, pool_size, connections,
                    batchChannel, publishCalls >>
    /\ UNCHANGED notTasks

\* SQLiteDriver::evaluate, the match over the fetched value: the partial
\* results are built and the value, with the guard inside it, is dropped
TaskEvaluate(t) ==
    /\ taskWorkers[t].st \in {"cached", "uncached"}
    /\ cacheGuard' = IF taskWorkers[t].st = "cached" THEN 0 ELSE cacheGuard
    /\ taskWorkers' = [taskWorkers EXCEPT ![t].st = "process", ![t].left = @ - 1]
    /\ UNCHANGED << publishing, taskQueue, stackMutex, cachedKeys, pool_size,
                    connections, batchChannel, publishCalls >>
    /\ UNCHANGED notTasks

\* tx.send(stack.process(&event))
TaskSend(t) ==
    /\ taskWorkers[t].st = "process" /\ taskWorkers[t].left = 0
    /\ LET emits == TaskRules[taskWorkers[t].rule].emits
       IN batchChannel' = Append(batchChannel, IF emits = 0 THEN <<>> ELSE << emits >>)
    /\ taskWorkers' = [taskWorkers EXCEPT ![t].st = "sent"]
    /\ UNCHANGED << publishing, taskQueue, stackMutex, cacheGuard, cachedKeys,
                    pool_size, connections, publishCalls >>
    /\ UNCHANGED notTasks

\* The end of the closure: the guard of the stacks is dropped
TaskUnlockStack(t) ==
    /\ taskWorkers[t].st = "sent"
    /\ stackMutex' = [stackMutex EXCEPT ![taskWorkers[t].rule] = 0]
    /\ taskWorkers' = [taskWorkers EXCEPT ![t] = IdleTask]
    /\ UNCHANGED << publishing, taskQueue, cacheGuard, cachedKeys, pool_size,
                    connections, batchChannel, publishCalls >>
    /\ UNCHANGED notTasks

TaskWorkerNext ==
    \E t \in DOMAIN taskWorkers :
        \/ TaskTake(t)
        \/ TaskLockStack(t)
        \/ TaskLookup(t)
        \/ TaskGetConnection(t)
        \/ TaskQuery(t)
        \/ \E accepted \in BOOLEAN : TaskStore(t, accepted)
        \/ TaskEvaluate(t)
        \/ TaskSend(t)
        \/ TaskUnlockStack(t)

TaskEngineNext == PublishRecurse \/ PublishSubmit \/ PublishDrain

TasksNext ==
    \/ \E ty \in TaskTuples : PublishCall(ty)
    \/ TaskEngineNext
    \/ TaskWorkerNext

\* The call of publish has returned to the client
PublishReturned == publishing.st = "idle" /\ publishing.todo = <<>>

\* Nothing is left to do: the client has made its calls and every thread
\* is idle
TasksDone ==
    /\ PublishReturned /\ publishCalls = MaxPublishCalls
    /\ taskQueue = <<>> /\ batchChannel = <<>>
    /\ \A t \in DOMAIN taskWorkers : taskWorkers[t].st = "idle"

\* C39: with no failing evaluation and no emission that triggers its own
\* rule again, no reachable state of the engine thread, the pool threads,
\* the rule mutexes, the cache mutex and the connection pool is a
\* deadlock: a worker holding its rule mutex gives its connection back
\* before it asks for the cache mutex and never waits for the cache mutex
\* while holding it; so every publish eventually returns, whatever the
\* pool size.
C39_NotStuck ==
    /\ TasksDone \/ ENABLED TasksNext
    /\ \A t \in DOMAIN taskWorkers :
        /\ taskWorkers[t].st \in {"cached", "miss", "query", "fetched", "uncached"} =>
                stackMutex[taskWorkers[t].rule] = t
        /\ taskWorkers[t].st \in {"process", "miss", "fetched"} => cacheGuard # t
    /\ connections + Cardinality({t \in DOMAIN taskWorkers : taskWorkers[t].st = "query"})
            = pool_size

C39_DeadlockFree == []C39_NotStuck /\ (~PublishReturned ~> PublishReturned)

C39_Witness ==
    /\ pool_size = 1 /\ connections = 0
    /\ publishing.st = "drain" /\ publishing.need = 2
    /\ \E t, u \in DOMAIN taskWorkers :
        /\ taskWorkers[t].st = "query"
        /\ taskWorkers[u].st = "miss"

(***************************************************************************)
(* The specifications: one per part of the program, the other parts idle.  *)
(***************************************************************************)
InitEngine ==
    EngineInit /\ CacheParked /\ StackParked /\ DriverParked /\ RegistryParked /\ TypesParked /\ TasksParked

SpecEngine == InitEngine /\ [][EngineNext]_vars

InitCache ==
    CacheInit /\ EngineParked /\ StackParked /\ DriverParked /\ RegistryParked /\ TypesParked /\ TasksParked

SpecCache == InitCache /\ [][CacheNext]_vars

InitStack ==
    StackInit /\ EngineParked /\ CacheParked /\ DriverParked /\ RegistryParked /\ TypesParked /\ TasksParked

SpecStack == InitStack /\ [][StackNext]_vars

InitDriver ==
    DriverInit /\ EngineParked /\ CacheParked /\ StackParked /\ RegistryParked /\ TypesParked /\ TasksParked

SpecDriver == InitDriver /\ [][DriverNext]_vars

InitNodes ==
    /\ EngineParked /\ CacheParked /\ RegistryParked /\ TypesParked /\ TasksParked
    /\ \/ StackInit /\ DriverParked
       \/ StackParked /\ DriverInit

SpecNodes == InitNodes /\ [][NodesNext]_vars

InitSubscriptions ==
    /\ SubscriptionsInit
    /\ CacheParked /\ StackParked /\ DriverParked /\ RegistryParked /\ TypesParked /\ TasksParked

SpecSubscriptions == InitSubscriptions /\ [][SubscriptionsNext]_vars

InitRegistry ==
    RegistryInit /\ EngineParked /\ CacheParked /\ StackParked /\ DriverParked /\ TypesParked /\ TasksParked

SpecRegistry == InitRegistry /\ [][RegistryNext]_vars

SpecLookup == InitCache /\ [][LookupNext]_vars

InitGdsf ==
    GdsfInit /\ EngineParked /\ StackParked /\ DriverParked /\ RegistryParked /\ TypesParked /\ TasksParked

SpecGdsf == InitGdsf /\ [][GdsfNext]_vars

InitTypes ==
    /\ TypesInit /\ EngineParked /\ CacheParked /\ StackParked /\ DriverParked
    /\ RegistryParked /\ TasksParked

SpecTypes == InitTypes /\ [][TypesNext]_vars

InitTasks ==
    /\ TasksInit /\ EngineParked /\ CacheParked /\ StackParked /\ DriverParked
    /\ RegistryParked /\ TypesParked

SpecTasks == InitTasks /\ [][TasksNext]_vars

\* The operating system runs every thread that can take a step: the pool
\* threads and the engine thread inside publish; the client owes no call.
SpecTasksFair ==
    /\ SpecTasks
    /\ WF_vars(TaskWorkerNext)
    /\ WF_vars(TaskEngineNext)

=============================================================================
